---- MODULE Spec2Model ----
(***************************************************************************)
(* Model of the blog's client-side core: PostManager (content store),      *)
(* Router (fragment resolver and view dispatcher) and SearchManager        *)
(* (query engine).                                                         *)
(*                                                                         *)
(* JavaScript strings are modelled as sequences of one-character strings,  *)
(* so that split, encodeURIComponent, decodeURIComponent, URLSearchParams, *)
(* toLowerCase, includes and trim are computed character by character.     *)
(***************************************************************************)
EXTENDS Integers, Sequences, FiniteSets, TLC

\* JavaScript null / undefined.
Null == "null"

(***************************************************************************)
(* String primitives                                                       *)
(***************************************************************************)

\* Array.prototype.join('') over a sequence of strings.
RECURSIVE Concat(_)
Concat(ss) == IF ss = <<>> THEN <<>> ELSE Head(ss) \o Concat(Tail(ss))

\* String.prototype.split(c) for a one-character separator c.
RECURSIVE SplitOn(_, _)
SplitOn(s, c) ==
    IF \E i \in 1..Len(s) : s[i] = c
    THEN LET i == CHOOSE k \in 1..Len(s) :
                      s[k] = c /\ \A j \in 1..(k - 1) : s[j] # c
         IN  <<SubSeq(s, 1, i - 1)>> \o SplitOn(SubSeq(s, i + 1, Len(s)), c)
    ELSE <<s>>

\* String.prototype.slice(1).
Slice1(s) == IF s = <<>> THEN <<>> ELSE Tail(s)

\* String.prototype.includes(needle).
Includes(s, needle) ==
    \E i \in 0..(Len(s) - Len(needle)) :
        SubSeq(s, i + 1, i + Len(needle)) = needle

UpperChars == {"A", "B", "C", "J", "S", "W"}

LowerOf(c) ==
    CASE c = "A" -> "a" [] c = "B" -> "b" [] c = "C" -> "c"
      [] c = "J" -> "j" [] c = "S" -> "s" [] c = "W" -> "w"
      [] OTHER -> c

\* String.prototype.toLowerCase().
ToLowerCase(s) == [i \in 1..Len(s) |-> LowerOf(s[i])]

\* String.prototype.trim().
RECURSIVE TrimLeft(_)
TrimLeft(s) == IF s # <<>> /\ Head(s) = " " THEN TrimLeft(Tail(s)) ELSE s

RECURSIVE TrimRight(_)
TrimRight(s) ==
    IF s # <<>> /\ s[Len(s)] = " " THEN TrimRight(SubSeq(s, 1, Len(s) - 1)) ELSE s

Trim(s) == TrimRight(TrimLeft(s))

(***************************************************************************)
(* URI encoding and decoding                                               *)
(***************************************************************************)

HexDigits == {"0", "1", "2", "3", "4", "5", "6", "7", "8", "9",
              "A", "B", "C", "D", "E", "F", "a", "b", "c", "d", "e", "f"}

\* The reserved characters of the model's alphabet and their escapes.
EscapeOf(c) ==
    CASE c = "/" -> <<"%", "2", "F">>
      [] c = "?" -> <<"%", "3", "F">>
      [] c = "=" -> <<"%", "3", "D">>
      [] c = "&" -> <<"%", "2", "6">>
      [] c = "%" -> <<"%", "2", "5">>
      [] c = " " -> <<"%", "2", "0">>
      [] c = "+" -> <<"%", "2", "B">>
      [] c = "#" -> <<"%", "2", "3">>
      [] OTHER   -> <<c>>

\* encodeURIComponent(s).
EncodeURIComponent(s) == Concat([i \in 1..Len(s) |-> EscapeOf(s[i])])

\* The character an escape %h1h2 stands for.
UnescapeOf(h1, h2) ==
    CASE h1 = "2" /\ h2 \in {"F", "f"} -> "/"
      [] h1 = "3" /\ h2 \in {"F", "f"} -> "?"
      [] h1 = "3" /\ h2 \in {"D", "d"} -> "="
      [] h1 = "2" /\ h2 = "6"          -> "&"
      [] h1 = "2" /\ h2 = "5"          -> "%"
      [] h1 = "2" /\ h2 = "0"          -> " "
      [] h1 = "2" /\ h2 \in {"B", "b"} -> "+"
      [] h1 = "2" /\ h2 = "3"          -> "#"
      [] OTHER                         -> "%" \o h1 \o h2

IsEscapeAt(s, i) ==
    /\ s[i] = "%"
    /\ i + 2 <= Len(s)
    /\ s[i + 1] \in HexDigits
    /\ s[i + 2] \in HexDigits

\* decodeURIComponent throws URIError on a '%' that does not start an escape.
Malformed(s) == \E i \in 1..Len(s) : s[i] = "%" /\ ~IsEscapeAt(s, i)

\* Percent-decoding that keeps a malformed '%' literally (URLSearchParams).
RECURSIVE PercentDecode(_)
PercentDecode(s) ==
    IF s = <<>> THEN <<>>
    ELSE IF IsEscapeAt(s, 1)
         THEN <<UnescapeOf(s[2], s[3])>> \o PercentDecode(SubSeq(s, 4, Len(s)))
         ELSE <<Head(s)>> \o PercentDecode(Tail(s))

\* decodeURIComponent(s): [threw |-> TRUE] for URIError, else the decoded value.
DecodeURIComponent(s) ==
    IF Malformed(s) THEN [threw |-> TRUE, val |-> <<>>]
    ELSE [threw |-> FALSE, val |-> PercentDecode(s)]

PlusToSpace(s) == [i \in 1..Len(s) |-> IF s[i] = "+" THEN " " ELSE s[i]]

\* One name=value pair of a query string, split at the first '='.
ParsePair(piece) ==
    LET eq == {i \in 1..Len(piece) : piece[i] = "="}
        at == IF eq = {} THEN Len(piece) + 1
              ELSE CHOOSE i \in eq : \A j \in eq : i <= j
    IN  <<PercentDecode(PlusToSpace(SubSeq(piece, 1, at - 1))),
          PercentDecode(PlusToSpace(SubSeq(piece, at + 1, Len(piece))))>>

\* new URLSearchParams(qs): the list of decoded <<name, value>> pairs.
URLSearchParams(qs) ==
    LET body   == IF qs # <<>> /\ Head(qs) = "?" THEN Tail(qs) ELSE qs
        pieces == SelectSeq(SplitOn(body, "&"), LAMBDA p : p # <<>>)
    IN  [i \in 1..Len(pieces) |-> ParsePair(pieces[i])]

(***************************************************************************)
(* Router: route table and fragment handling                               *)
(***************************************************************************)

rHome       == <<"h", "o", "m", "e">>
rPosts      == <<"p", "o", "s", "t", "s">>
rPost       == <<"p", "o", "s", "t">>
rCategories == <<"c", "a", "t", "e", "g", "o", "r", "i", "e", "s">>
rTags       == <<"t", "a", "g", "s">>
rSearch     == <<"s", "e", "a", "r", "c", "h">>
rAbout      == <<"a", "b", "o", "u", "t">>
r404        == <<"4", "0", "4">>

kSlug     == <<"s", "l", "u", "g">>
kCategory == <<"c", "a", "t", "e", "g", "o", "r", "y">>
kTag      == <<"t", "a", "g">>
kQ        == <<"q">>
kQuery    == <<"q", "u", "e", "r", "y">>

\* Router.defineRoutes: the own properties of this.routes.
defineRoutes ==
    (rHome :> "renderHome") @@ (rPosts :> "renderAllPosts") @@
    (rPost :> "renderPost") @@ (rCategories :> "renderCategories") @@
    (rTags :> "renderTags") @@ (rSearch :> "renderSearch") @@
    (rAbout :> "renderAbout") @@ (r404 :> "render404")

\* The route names of the URL fragment scheme.
RouteNames == {rHome, rPosts, rPost, rCategories, rTags, rSearch, rAbout}

\* this.routes is an object literal: a lookup by name also finds what the
\* object inherits, such as the function Object under "constructor".
pConstructor == <<"c", "o", "n", "s", "t", "r", "u", "c", "t", "o", "r">>

\* this.routes[name]: the handler found, or Null for undefined.
RouteLookup(table, name) ==
    IF name \in DOMAIN table THEN table[name]
    ELSE IF name = pConstructor THEN "Object"
    ELSE Null

\* JavaScript truthiness of params[key] for string-valued params.
Truthy(params, key) == key \in DOMAIN params /\ params[key] # <<>>

NoParams == [k \in {} |-> <<>>]

\* obj[key] = value.
SetParam(params, key, value) ==
    [k \in DOMAIN params \cup {key} |-> IF k = key THEN value ELSE params[k]]

\* Router.navigate: the url assigned to window.location.hash.
NavigateURL(route, params) ==
    <<"#">> \o route
    \o (IF Truthy(params, kSlug) THEN <<"/">> \o params[kSlug] ELSE <<>>)
    \o (IF Truthy(params, kCategory)
        THEN <<"?">> \o kCategory \o <<"=">> \o EncodeURIComponent(params[kCategory])
        ELSE <<>>)
    \o (IF Truthy(params, kTag)
        THEN <<"?">> \o kTag \o <<"=">> \o EncodeURIComponent(params[kTag])
        ELSE <<>>)
    \o (IF Truthy(params, kQ)
        THEN <<"?">> \o kQ \o <<"=">> \o EncodeURIComponent(params[kQ])
        ELSE <<>>)

\* window.location.hash = url, read back through the getter: one leading '#'
\* of the assigned value is dropped, and an empty fragment reads as ''.
AssignHash(url) ==
    LET frag == IF url # <<>> /\ Head(url) = "#" THEN Tail(url) ELSE url
    IN  IF frag = <<>> THEN <<>> ELSE <<"#">> \o frag

\* params.forEach((value, key) => routeParams[key] = decodeURIComponent(value))
RECURSIVE ForEachParam(_, _)
ForEachParam(pairs, acc) ==
    IF pairs = <<>> THEN [threw |-> FALSE, params |-> acc]
    ELSE LET d == DecodeURIComponent(Head(pairs)[2])
         IN  IF d.threw THEN [threw |-> TRUE, params |-> acc]
             ELSE ForEachParam(Tail(pairs), SetParam(acc, Head(pairs)[1], d.val))

\* Router.handleRouteChange up to the lookup of the handler: the target route
\* and the route params resolved from path (<<>> for null) and
\* window.location.hash.
ResolveRoute(path, lh) ==
    LET hash      == IF path # <<>> THEN path ELSE Slice1(lh)
        segs      == SplitOn(hash, "/")
        route     == Head(segs)
        pathParts == Tail(segs)
        bySplit   == SplitOn(lh, "?")
        query     == IF Len(bySplit) >= 2 THEN bySplit[2] ELSE <<>>
        withSlug  == IF Len(pathParts) > 0
                     THEN SetParam(NoParams, kSlug, pathParts[1])
                     ELSE NoParams
        each      == ForEachParam(URLSearchParams(query), withSlug)
    IN  [threw  |-> each.threw,
         route  |-> IF route # <<>> THEN route ELSE rHome,
         params |-> each.params]

(***************************************************************************)
(* Post documents                                                          *)
(***************************************************************************)

sa == <<"a">>
sb == <<"b">>
sc == <<"c">>

\* The slugs of the published post documents.
Slugs == {sa, sb, sc}

\* A tags value: typeof 'string' (val holds the one string) or an array.
TagString(str) == [type |-> "string", val |-> <<str>>]
TagList(arr)   == [type |-> "array", val |-> arr]

\* A tags value that is neither: a number, a boolean, null or an object.
TagOther(type) == [type |-> type, val |-> <<>>]

\* The tag processing that takes an array only and drops a string.
TagArrayOfArrays(post) ==
    IF "tags" \in DOMAIN post /\ post["tags"].type = "array"
    THEN post["tags"].val ELSE <<>>

\* The well-formed post document published under each slug.
GoodDoc(slug) ==
    CASE slug = sa ->
           [slug |-> sa, title |-> <<"J", "S">>, author |-> <<"n">>,
            date |-> <<"2">>, contents |-> <<"<", "b", ">", "h", "i", "<", "/", "b", ">">>,
            category |-> <<"W", "e", "b">>,
            tags |-> TagString(<<"j", "s", ",", " ", "w", "e", "b", ",">>)]
      [] slug = sb ->
           [slug |-> sb, title |-> <<"C", "s", "s">>, author |-> <<"n">>,
            date |-> <<"3">>, contents |-> <<"j", "s", " ", "b">>,
            tags |-> TagList(<<<<"W", "e", "b">>, <<"a", "b">>>>)]
      [] OTHER ->
           [slug |-> slug, title |-> <<"G", "o">>, author |-> <<"n">>,
            date |-> <<"1">>, contents |-> <<"<", "p", ">", "w", "<", "/", "p", ">">>,
            category |-> <<"d", "e", "v">>,
            tags |-> TagList(<<<<"a", "b">>>>)]

\* PostManager.validatePost: requiredFields.
requiredFields == <<"slug", "title", "author", "date", "contents">>

Required == {requiredFields[i] : i \in 1..Len(requiredFields)}

Without(doc, f) == [k \in DOMAIN doc \ {f} |-> doc[k]]

Blanked(doc, f) == [doc EXCEPT ![f] = <<>>]

\* The documents a server may return for a slug: the well-formed one, and the
\* ones that miss a required field or carry it empty.
DocsFor(slug) ==
    {GoodDoc(slug)}
    \cup {Without(GoodDoc(slug), f) : f \in Required}
    \cup {Blanked(GoodDoc(slug), f) : f \in Required}

NoDoc == [k \in {} |-> <<>>]

\* What a fetch of a JSON document can come to: fetch() rejects ("neterr"),
\* the response is not ok ("notok"), response.json() rejects ("badjson"), or
\* the body parses to a document.
Failure(kind) == [kind |-> kind, doc |-> NoDoc]
Body(doc)     == [kind |-> "doc", doc |-> doc]

(***************************************************************************)
(* PostManager                                                             *)
(***************************************************************************)

\* validatePost without the test of the value: an empty field passes.
validatePostPresence(post) ==
    \A i \in 1..Len(requiredFields) : requiredFields[i] \in DOMAIN post

\* PostManager.validatePost.
validatePost(post) ==
    \A i \in 1..Len(requiredFields) :
        requiredFields[i] \in DOMAIN post /\ post[requiredFields[i]] # <<>>

\* The tag processing of PostManager.loadPost.
TagArrayOf(post) ==
    IF "tags" \notin DOMAIN post THEN <<>>
    ELSE IF post["tags"].type = "string"
         THEN LET parts   == SplitOn(post["tags"].val[1], ",")
                  trimmed == [i \in 1..Len(parts) |-> Trim(parts[i])]
              IN  SelectSeq(trimmed, LAMBDA tag : tag # <<>>)
         ELSE IF post["tags"].type = "array" THEN post["tags"].val
         ELSE <<>>

\* PostManager.loadPost: the post, or NoDoc for null.
loadPost(slug, outcome) ==
    IF outcome.kind # "doc" THEN NoDoc
    ELSE IF ~validatePost(outcome.doc) THEN NoDoc
    ELSE [k \in DOMAIN outcome.doc \cup {"tagArray"} |->
             IF k = "tagArray" THEN TagArrayOf(outcome.doc) ELSE outcome.doc[k]]

\* posts.filter(post => post !== null) over the results of Promise.all.
LoadedPosts(slugs, outcomes) ==
    SelectSeq([i \in 1..Len(slugs) |-> loadPost(slugs[i], outcomes[i])],
              LAMBDA post : post # NoDoc)

\* extractCategoriesAndTags that adds only the first tag of each post.
TagsOfFirst(ps) ==
    {ps[i]["tagArray"][1] : i \in {j \in 1..Len(ps) : ps[j]["tagArray"] # <<>>}}

HasCategory(post) == "category" \in DOMAIN post /\ post["category"] # <<>>

\* PostManager.extractCategoriesAndTags.
CategoriesOf(ps) == {ps[i]["category"] : i \in {j \in 1..Len(ps) : HasCategory(ps[j])}}

TagsOf(ps) == UNION {{ps[i]["tagArray"][j] : j \in 1..Len(ps[i]["tagArray"])} : i \in 1..Len(ps)}

\* The UTF-16 code unit of a character of the labels.
CodeUnit(c) ==
    CASE c = " " -> 32 [] c = "," -> 44
      [] c = "A" -> 65 [] c = "B" -> 66 [] c = "C" -> 67 [] c = "J" -> 74
      [] c = "S" -> 83 [] c = "W" -> 87
      [] c = "a" -> 97 [] c = "b" -> 98 [] c = "c" -> 99 [] c = "d" -> 100
      [] c = "e" -> 101 [] c = "j" -> 106 [] c = "s" -> 115 [] c = "v" -> 118
      [] c = "w" -> 119

\* The default comparison of Array.prototype.sort(): x sorts before y when
\* its code units come first.
RECURSIVE StringLess(_, _)
StringLess(x, y) ==
    IF y = <<>> THEN FALSE
    ELSE IF x = <<>> THEN TRUE
    ELSE IF x[1] = y[1] THEN StringLess(Tail(x), Tail(y))
    ELSE CodeUnit(x[1]) < CodeUnit(y[1])

\* Array.from(set).sort().
RECURSIVE SortLabels(_)
SortLabels(set) ==
    IF set = {} THEN <<>>
    ELSE LET first == CHOOSE x \in set : \A y \in set \ {x} : StringLess(x, y)
         IN  <<first>> \o SortLabels(set \ {first})

\* PostManager.getAllCategories.
getAllCategories(cats) == SortLabels(cats)

\* PostManager.getAllTags.
getAllTags(tgs) == SortLabels(tgs)

\* new Date(post.date): the day number of a date string.
DateValue(d) ==
    CASE d = <<"1">> -> 1 [] d = <<"2">> -> 2 [] d = <<"3">> -> 3
      [] d = <<"4">> -> 4 [] d = <<"5">> -> 5 [] OTHER -> 0

\* Array.prototype.sort((a, b) => new Date(b.date) - new Date(a.date)): a
\* stable sort by descending date.
RECURSIVE InsertByDate(_, _)
InsertByDate(post, sorted) ==
    IF sorted = <<>> THEN <<post>>
    ELSE IF DateValue(Head(sorted)["date"]) >= DateValue(post["date"])
         THEN <<Head(sorted)>> \o InsertByDate(post, Tail(sorted))
         ELSE <<post>> \o sorted

RECURSIVE SortByDateDesc(_)
SortByDateDesc(ps) ==
    IF ps = <<>> THEN <<>>
    ELSE InsertByDate(ps[Len(ps)], SortByDateDesc(SubSeq(ps, 1, Len(ps) - 1)))

\* Array.prototype.slice(0, limit).
Slice0(s, limit) == SubSeq(s, 1, IF limit < Len(s) THEN limit ELSE Len(s))

\* getLatestPosts without the sort: the first posts of the collection.
getLatestPostsUnsorted(ps, limit) == Slice0(ps, limit)

\* PostManager.getLatestPosts(limit): the value returned; this.posts itself
\* is left sorted, since Array.prototype.sort sorts in place.
getLatestPosts(ps, limit) == Slice0(SortByDateDesc(ps), limit)

\* A lookup that ignores the case of the letters.
PostsWithSlugAnyCase(ps, slug) ==
    SelectSeq(ps, LAMBDA post : ToLowerCase(post["slug"]) = ToLowerCase(slug))

\* PostManager.getPostBySlug: the posts with that slug (find takes the first).
PostsWithSlug(ps, slug) == SelectSeq(ps, LAMBDA post : post["slug"] = slug)

\* PostManager.getPostBySlug(slug): the post, or NoDoc for undefined.
getPostBySlug(ps, slug) ==
    IF PostsWithSlug(ps, slug) = <<>> THEN NoDoc ELSE Head(PostsWithSlug(ps, slug))

\* PostManager.getPostsByCategory(category).
getPostsByCategory(ps, category) ==
    SelectSeq(ps, LAMBDA post : "category" \in DOMAIN post /\ post["category"] = category)

\* PostManager.getPostsByTag(tag).
getPostsByTag(ps, tag) ==
    SelectSeq(ps, LAMBDA post : \E i \in 1..Len(post["tagArray"]) : post["tagArray"][i] = tag)

\* extractTextFromHTML: the text content, markup between '<' and '>' dropped.
RECURSIVE StripTags(_, _)
StripTags(html, inTag) ==
    IF html = <<>> THEN <<>>
    ELSE IF inTag
         THEN StripTags(Tail(html), Head(html) # ">")
         ELSE IF Head(html) = "<" THEN StripTags(Tail(html), TRUE)
              ELSE <<Head(html)>> \o StripTags(Tail(html), FALSE)

extractTextFromHTML(html) == StripTags(html, FALSE)

\* searchPosts that forgets the category label.
PostMatchesNoCategory(post, searchTerm) ==
    \/ Includes(ToLowerCase(post["title"]), searchTerm)
    \/ Includes(ToLowerCase(extractTextFromHTML(post["contents"])), searchTerm)
    \/ \E i \in 1..Len(post["tagArray"]) :
           Includes(ToLowerCase(post["tagArray"][i]), searchTerm)

\* The filter predicate of PostManager.searchPosts.
PostMatches(post, searchTerm) ==
    LET titleMatch    == Includes(ToLowerCase(post["title"]), searchTerm)
        contentMatch  == Includes(ToLowerCase(extractTextFromHTML(post["contents"])),
                                  searchTerm)
        tagMatch      == \E i \in 1..Len(post["tagArray"]) :
                             Includes(ToLowerCase(post["tagArray"][i]), searchTerm)
        categoryMatch == HasCategory(post)
                         /\ Includes(ToLowerCase(post["category"]), searchTerm)
    IN  titleMatch \/ contentMatch \/ tagMatch \/ categoryMatch

\* PostManager.searchPosts.
searchPosts(ps, query) ==
    SelectSeq(ps, LAMBDA post : PostMatches(post, ToLowerCase(query)))

SlugsOf(ps) == [i \in 1..Len(ps) |-> ps[i]["slug"]]

(***************************************************************************)
(* Bounds and inputs                                                       *)
(***************************************************************************)

\* Calls of asynchronous procedures that may be in flight together.
MaxTasks == 2

\* Fetches of the index document in one page session.
MaxIndexFetches == 2

\* Navigation events that may be queued together.
MaxPending == 1

\* Clicks, address-bar edits and searches of the visitor in one page session.
MaxEvents == 2

\* Fetches of one post document that are counted.
MaxCounted == 2

\* Longest index document.
MaxIndexLen == 3

\* The index documents listing up to n slugs, none twice.
RECURSIVE ListsUpTo(_)
ListsUpTo(n) ==
    IF n = 0 THEN {<<>>}
    ELSE LET shorter == ListsUpTo(n - 1)
         IN  shorter \cup
             {Append(l, x) : l \in {m \in shorter : Len(m) = n - 1}, x \in Slugs}

NoRepeat(l) == \A i, j \in 1..Len(l) : i # j => l[i] # l[j]

\* The index documents: every list, or the ones the session model draws from.
IndexLists(all) ==
    IF all THEN {l \in ListsUpTo(MaxIndexLen) : NoRepeat(l)}
    ELSE {<<>>, <<sa>>, <<sa, sb>>}

\* PostManager.discoverPosts: commonSlugs (two stand for the five).
commonSlugs == <<sa, sb>>

\* The settlements of the fetch of static/posts/index.json.
IndexOutcomes(all) ==
    {[kind |-> k, list |-> <<>>] : k \in {"neterr", "notok", "badjson"}}
    \cup {[kind |-> "ok", list |-> l] : l \in IndexLists(all)}

\* The settlements of the fetch of one post document: all of them, or the
\* three that the session model draws from.
OutcomesFor(slug, all) ==
    IF all
    THEN {Failure(k) : k \in {"neterr", "notok", "badjson"}}
         \cup {Body(d) : d \in DocsFor(slug)}
    ELSE {Failure("notok"), Body(GoodDoc(slug)), Body(Without(GoodDoc(slug), "title"))}

\* The settlements of the fetches of the listed post documents.
RECURSIVE OutcomeSeqs(_, _)
OutcomeSeqs(slugs, all) ==
    IF slugs = <<>> THEN {<<>>}
    ELSE {<<o>> \o rest : o \in OutcomesFor(Head(slugs), all),
                          rest \in OutcomeSeqs(Tail(slugs), all)}

\* The fragments a visitor opens the page with or types into the address bar.
UserFragments ==
    {<<>>,
     <<"#">> \o rPost,
     <<"#">> \o rPost \o <<"/">> \o sa,
     <<"#">> \o rSearch \o <<"?", "q", "=", "j", "s">>,
     <<"#">> \o rAbout \o <<"?", "x", "=", "%", "2", "5">>,
     <<"#">> \o pConstructor}

\* The elements carrying data-route.
NavLinks == {rHome, rPosts, rCategories, rTags, rAbout}

\* The values of the search input.
Queries == {<<>>, <<" ">>, <<"j">>, <<"j", " ">>, <<" ", "J", "S">>}

(***************************************************************************)
(* State                                                                   *)
(***************************************************************************)

VARIABLES
    posts,          \* PostManager.posts
    categories,     \* PostManager.categories
    tags,           \* PostManager.tags
    postsLoaded,    \* PostManager.postsLoaded
    indexFetches,   \* fetches issued for static/posts/index.json
    postFetches,    \* fetches issued for each static/posts/<slug>.json
    spinner,        \* #loadingSpinner is shown
    mainContent,    \* the view in #main-content
    content,        \* the view in #content
    routes,         \* Router.routes
    currentRoute,   \* Router.currentRoute (<<>> for null)
    currentParams,  \* Router.currentParams
    locationHash,   \* window.location.hash
    hashEvents,     \* navigation events queued for the hashchange listener
    currentQuery,   \* SearchManager.currentQuery
    searchResults,  \* SearchManager.searchResults
    tasks,          \* the asynchronous calls in flight
    events,         \* clicks, address-bar edits and searches so far
    called,         \* the handler or entry point the step just taken called
    probe           \* the case under test of a pure function

storeVars  == <<posts, categories, tags, postsLoaded>>
netVars    == <<indexFetches, postFetches>>
domVars    == <<spinner, mainContent, content>>
routerVars == <<routes, currentRoute, currentParams, locationHash, hashEvents>>
searchVars == <<currentQuery, searchResults>>

vars == <<posts, categories, tags, postsLoaded, indexFetches, postFetches,
          spinner, mainContent, content, routes, currentRoute, currentParams,
          locationHash, hashEvents, currentQuery, searchResults, tasks,
          events, called, probe>>

View(name, arg) == [view |-> name, arg |-> arg]

View404 == View("404", <<>>)

TaskIds == 1..MaxTasks

\* A call that is not running.
IdleTask ==
    [kind |-> "none", arg |-> <<>>, pc |-> "idle", index |-> "none",
     slugs |-> <<>>, outs |-> <<>>, res |-> "none", ret |-> <<>>]

Called(op, arg, threw) == [op |-> op, arg |-> arg, threw |-> threw]

NoCall == Called("none", <<>>, "no")

NoProbe == [stage |-> "none"]

\* The state machine of the page: the objects as constructed, the page opened
\* at some fragment, Router.init about to handle the initial route.
StoreInit ==
    /\ posts = <<>>
    /\ categories = {}
    /\ tags = {}
    /\ postsLoaded = FALSE
    /\ indexFetches = 0
    /\ postFetches = [s \in Slugs |-> 0]
    /\ spinner = FALSE
    /\ mainContent = View("blank", <<>>)
    /\ content = View("blank", <<>>)
    /\ routes = defineRoutes
    /\ currentRoute = <<>>
    /\ currentParams = NoParams
    /\ currentQuery = <<>>
    /\ searchResults = <<>>
    /\ tasks = [t \in TaskIds |-> IdleTask]
    /\ events = 0
    /\ called = NoCall

Init ==
    /\ StoreInit
    /\ locationHash \in UserFragments
    /\ hashEvents = 1
    /\ probe = NoProbe

(***************************************************************************)
(* PostManager.loadAllPosts                                                *)
(***************************************************************************)

\* A continuation that is ready runs before the next event is taken.
NoMicrotask == \A t \in TaskIds : tasks[t].pc # "resume"

Free == {t \in TaskIds : tasks[t].pc = "idle"}

FirstFree == CHOOSE t \in Free : \A u \in Free : t <= u

\* loadAllPosts without the early return.
CachedReturnNever == FALSE

\* if (this.postsLoaded) return this.posts;
CachedReturn == postsLoaded

\* A caller (kind, arg) runs up to its await of postManager.loadAllPosts();
\* shows tells whether the caller itself called showLoading() before.
CallLoad(kind, arg, shows) ==
    /\ Free # {}
    /\ IF CachedReturn
       THEN /\ tasks' = [tasks EXCEPT ![FirstFree] =
                            [IdleTask EXCEPT !.kind = kind, !.arg = arg,
                                             !.pc = "resume", !.res = "ok",
                                             !.ret = posts]]
            /\ spinner' = (spinner \/ shows)
            /\ UNCHANGED netVars
       ELSE /\ indexFetches < MaxIndexFetches
            /\ tasks' = [tasks EXCEPT ![FirstFree] =
                            [IdleTask EXCEPT !.kind = kind, !.arg = arg,
                                             !.pc = "awaitIndex"]]
            /\ spinner' = TRUE
            /\ indexFetches' = indexFetches + 1
            /\ UNCHANGED postFetches

\* loadAllPosts that swallows a body that does not parse.
IndexThrowsNetworkOnly(o) == o.kind = "neterr"

\* The settlements of the index fetch that throw inside the try block:
\* fetch() rejecting and response.json() rejecting.
IndexThrows(o) == o.kind \in {"neterr", "badjson"}

\* postSlugs.map(slug => this.loadPost(slug)): one fetch per listed slug
\* (counted up to MaxCounted).
IssuePostFetches(slugs) ==
    [s \in Slugs |->
        LET n == postFetches[s] + Cardinality({i \in 1..Len(slugs) : slugs[i] = s})
        IN  IF n > MaxCounted THEN MaxCounted ELSE n]

\* The rest of the try block once every loadPost has settled.
FinishLoad(t, kind, slugs, outs) ==
    /\ posts' = LoadedPosts(slugs, outs)
    /\ categories' = CategoriesOf(posts')
    /\ tags' = TagsOf(posts')
    /\ postsLoaded' = TRUE
    /\ spinner' = FALSE
    /\ tasks' = [tasks EXCEPT ![t] =
                    [@ EXCEPT !.pc = "resume", !.res = "ok", !.index = kind,
                              !.slugs = slugs, !.outs = outs, !.ret = posts']]

\* The fetch of static/posts/index.json settles.
IndexSettled(t, all) ==
    /\ NoMicrotask
    /\ tasks[t].pc = "awaitIndex"
    /\ \E o \in IndexOutcomes(all) :
        IF IndexThrows(o)
        THEN \* catch (error) { hideLoading(); throw error; }
             /\ tasks' = [tasks EXCEPT ![t] =
                             [@ EXCEPT !.pc = "resume", !.res = "rejected",
                                       !.index = o.kind]]
             /\ spinner' = FALSE
             /\ UNCHANGED <<storeVars, netVars>>
        ELSE IF o.kind = "notok"
        THEN \* postSlugs = await this.discoverPosts()
             /\ tasks' = [tasks EXCEPT ![t] =
                             [@ EXCEPT !.pc = "awaitDiscover", !.index = o.kind]]
             /\ postFetches' = IssuePostFetches(commonSlugs)
             /\ UNCHANGED <<storeVars, spinner, indexFetches>>
        ELSE \* postSlugs = index.posts || []
             /\ IF o.list = <<>>
                THEN /\ FinishLoad(t, o.kind, <<>>, <<>>)
                     /\ UNCHANGED postFetches
                ELSE /\ tasks' = [tasks EXCEPT ![t] =
                                     [@ EXCEPT !.pc = "awaitPosts", !.slugs = o.list,
                                               !.index = o.kind]]
                     /\ postFetches' = IssuePostFetches(o.list)
                     /\ UNCHANGED <<storeVars, spinner>>
             /\ UNCHANGED indexFetches
    /\ UNCHANGED <<mainContent, content, routerVars, searchVars, events, probe>>
    /\ called' = NoCall

\* PostManager.discoverPosts has tried every common slug: the ones whose
\* response was ok are then loaded like listed ones.
DiscoverSettled(t) ==
    /\ NoMicrotask
    /\ tasks[t].pc = "awaitDiscover"
    /\ \E found \in SUBSET {commonSlugs[i] : i \in 1..Len(commonSlugs)} :
        LET existingSlugs == SelectSeq(commonSlugs, LAMBDA s : s \in found)
        IN  IF existingSlugs = <<>>
            THEN /\ FinishLoad(t, tasks[t].index, <<>>, <<>>)
                 /\ UNCHANGED postFetches
            ELSE /\ tasks' = [tasks EXCEPT ![t] =
                                 [@ EXCEPT !.pc = "awaitPosts", !.slugs = existingSlugs]]
                 /\ postFetches' = IssuePostFetches(existingSlugs)
                 /\ UNCHANGED <<storeVars, spinner>>
    /\ UNCHANGED <<indexFetches, mainContent, content, routerVars, searchVars, events, probe>>
    /\ called' = NoCall

\* Every loadPost of the call has settled: await Promise.all(postPromises).
PostsSettled(t, all) ==
    /\ NoMicrotask
    /\ tasks[t].pc = "awaitPosts"
    /\ \E outs \in OutcomeSeqs(tasks[t].slugs, all) :
        FinishLoad(t, tasks[t].index, tasks[t].slugs, outs)
    /\ UNCHANGED <<netVars, mainContent, content, routerVars, searchVars, events, probe>>
    /\ called' = NoCall

(***************************************************************************)
(* Router                                                                  *)
(***************************************************************************)

\* Router.navigate.
Navigate(route, params) ==
    /\ currentRoute' = route
    /\ currentParams' = params
    /\ locationHash' = AssignHash(NavigateURL(route, params))
    /\ hashEvents' = IF locationHash' # locationHash THEN hashEvents + 1 ELSE hashEvents
    /\ routes' = routes

\* Navigation events queued or still to be queued by a search in flight.
Pending == hashEvents + Cardinality({t \in TaskIds : tasks[t].kind = "handleSearch"})

\* The visitor acts: between two events of the page, while the bounds allow.
UserEvent ==
    /\ NoMicrotask
    /\ Pending < MaxPending
    /\ events < MaxEvents
    /\ events' = events + 1
    /\ UNCHANGED probe

\* The render procedures that await postManager.loadAllPosts() first.
LoadingHandlers == {"renderHome", "renderAllPosts", "renderCategories", "renderTags"}

\* The methods of SearchManager.
SearchManagerMethods ==
    {"init", "setupSearchElements", "setupSearchListeners", "handleSearch",
     "renderSearchResults", "renderNoResults", "renderResultsList",
     "renderSearchResult", "setupSearchResultsListeners", "searchByTag",
     "searchByCategory", "clearSearch", "getCurrentQuery", "getSearchResults",
     "setSearchQuery"}

\* The handlers whose call throws before it returns: Router.renderSearch
\* calls searchManager.performSearch, which SearchManager does not have.
ThrowsSync(h) == h = "renderSearch" /\ "performSearch" \notin SearchManagerMethods

\* A catch block that only logs: the view stays as it was.
OnHandlerErrorLogOnly == mainContent

\* catch (error) { this.render404(); }
OnHandlerError == View404

\* try { this.routes[targetRoute](routeParams); } catch ...
Invoke(h, params) ==
    IF h \in LoadingHandlers \/ (h = "renderPost" /\ Truthy(params, kSlug))
    THEN /\ CallLoad(h, IF h = "renderPost" THEN params[kSlug] ELSE <<>>, TRUE)
         /\ called' = Called(h, <<>>, "no")
         /\ UNCHANGED mainContent
    ELSE /\ called' = Called(h, <<>>, IF ThrowsSync(h) THEN "TypeError" ELSE "no")
         /\ mainContent' =
                IF ThrowsSync(h) THEN OnHandlerError
                ELSE CASE h = "renderPost"  -> View404
                       [] h = "render404"   -> View404
                       [] h = "renderAbout" -> View("about", <<>>)
                       [] OTHER             -> mainContent
         /\ UNCHANGED <<tasks, spinner, netVars>>

\* Router.handleRouteChange(path), path <<>> when called without argument.
handleRouteChange(path) ==
    LET r == ResolveRoute(path, locationHash)
        h == RouteLookup(routes, r.route)
    IN  /\ IF r.threw
           THEN \* decodeURIComponent throws: the URIError leaves the listener
                /\ called' = Called("none", <<>>, "URIError")
                /\ UNCHANGED <<currentRoute, currentParams, mainContent, tasks,
                               spinner, netVars>>
           ELSE IF h # Null
           THEN /\ currentRoute' = r.route
                /\ currentParams' = r.params
                /\ Invoke(h, r.params)
           ELSE \* this.routes['404']()
                /\ called' = Called(RouteLookup(routes, r404), <<>>, "no")
                /\ mainContent' = View404
                /\ UNCHANGED <<currentRoute, currentParams, tasks, spinner, netVars>>
        /\ UNCHANGED <<storeVars, content, routes, locationHash, searchVars, events, probe>>

\* The hashchange listener, and the initial call of Router.init.
HashChange ==
    /\ NoMicrotask
    /\ hashEvents > 0
    /\ hashEvents' = hashEvents - 1
    /\ handleRouteChange(<<>>)

\* A click on an element carrying data-route.
ClickRoute ==
    /\ UserEvent
    /\ called' = NoCall
    /\ \E route \in NavLinks : Navigate(route, NoParams)
    /\ UNCHANGED <<storeVars, netVars, domVars, searchVars, tasks>>

\* A click on a post card of the home or the all-posts view.
ClickPostCard ==
    /\ UserEvent
    /\ called' = NoCall
    /\ mainContent.view \in {"home", "posts"}
    /\ \E i \in 1..Len(mainContent.arg) :
           Navigate(rPost, SetParam(NoParams, kSlug, mainContent.arg[i]))
    /\ UNCHANGED <<storeVars, netVars, domVars, searchVars, tasks>>

\* The visitor changes the fragment in the address bar.
EditFragment ==
    /\ UserEvent
    /\ called' = NoCall
    /\ \E f \in UserFragments \ {locationHash} : locationHash' = f
    /\ hashEvents' = hashEvents + 1
    /\ UNCHANGED <<storeVars, netVars, domVars, routes, currentRoute, currentParams,
                   searchVars, tasks>>

(***************************************************************************)
(* SearchManager                                                           *)
(***************************************************************************)

\* SearchManager.handleSearch: the least length of a query that is searched.
MinQueryLength == 2

\* The length test off by one: a query of one character is searched.
TooShortOnlyEmpty(trimmedQuery) == Len(trimmedQuery) < MinQueryLength - 1

\* if (trimmedQuery.length < 2) return;
TooShort(trimmedQuery) == Len(trimmedQuery) < MinQueryLength

\* SearchManager.handleSearch(query) up to its await.
handleSearch(query) ==
    LET trimmedQuery == Trim(query)
    IN  IF Len(trimmedQuery) = 0
        THEN /\ Navigate(rHome, NoParams)
             /\ UNCHANGED <<storeVars, netVars, domVars, searchVars, tasks>>
        ELSE IF TooShort(trimmedQuery)
        THEN UNCHANGED <<storeVars, netVars, domVars, routerVars, searchVars, tasks>>
        ELSE /\ currentQuery' = trimmedQuery
             /\ CallLoad("handleSearch", trimmedQuery, FALSE)
             /\ UNCHANGED <<storeVars, mainContent, content, routerVars,
                            searchResults>>

\* The search input settles, Enter is pressed or the search button clicked.
Search ==
    /\ UserEvent
    /\ \E query \in Queries :
        /\ handleSearch(query)
        /\ called' = Called("handleSearch", query, "no")

(***************************************************************************)
(* Continuations after await postManager.loadAllPosts()                    *)
(***************************************************************************)

\* Router.renderHome: postManager.getLatestPosts(6).
HomeLatest == 6

\* A catch block that renders the not-found view instead of the message.
ErrorViewNotFound == View404

\* showError(message): the message goes to #content.
ErrorView == View("error", <<>>)

\* renderPost that renders whatever getPostBySlug returns.
PostViewUnchecked(ps, slug) == View("post", <<slug>>)

\* Router.renderPost after the load: render404() when getPostBySlug finds no
\* post, the full post otherwise.
PostView(ps, slug) ==
    IF getPostBySlug(ps, slug) = NoDoc THEN View404 ELSE View("post", <<slug>>)

\* The caller of loadAllPosts resumes with its result or in its catch block.
Resume(t) ==
    LET k  == tasks[t].kind
        ok == tasks[t].res = "ok"
    IN
    /\ tasks[t].pc = "resume"
    /\ tasks' = [tasks EXCEPT ![t] = IdleTask]
    /\ IF k = "handleSearch"
       THEN /\ IF ok
               THEN /\ searchResults' = searchPosts(posts, tasks[t].arg)
                    /\ Navigate(rSearch, SetParam(NoParams, kQuery, tasks[t].arg))
                    /\ UNCHANGED content
               ELSE /\ content' = ErrorView
                    /\ UNCHANGED <<searchResults, routerVars>>
            /\ UNCHANGED <<posts, spinner, mainContent, currentQuery>>
       ELSE IF k = "loadAllPosts"
       THEN UNCHANGED <<posts, domVars, routerVars, searchVars>>
       ELSE /\ IF ~ok
               THEN \* catch (error) { showError(...) }
                    /\ content' = ErrorView
                    /\ UNCHANGED <<posts, mainContent>>
               ELSE /\ content' = content
                    /\ posts' = IF k \in {"renderHome", "renderAllPosts"}
                                THEN SortByDateDesc(posts) ELSE posts
                    /\ mainContent' =
                         CASE k = "renderHome" ->
                                View("home", SlugsOf(Slice0(posts', HomeLatest)))
                           [] k = "renderAllPosts" -> View("posts", SlugsOf(posts'))
                           [] k = "renderPost" -> PostView(posts, tasks[t].arg)
                           [] k = "renderCategories" -> View("categories", <<>>)
                           [] OTHER -> View("tags", <<>>)
            \* finally { hideLoading(); }
            /\ spinner' = FALSE
            /\ UNCHANGED <<routerVars, searchVars>>
    /\ UNCHANGED <<categories, tags, postsLoaded, netVars, events, probe>>
    /\ called' = NoCall

(***************************************************************************)
(* Specifications                                                          *)
(***************************************************************************)

\* The page session: navigation, rendering and searching interleaved.
Next ==
    \/ HashChange
    \/ ClickRoute
    \/ ClickPostCard
    \/ EditFragment
    \/ Search
    \/ \E t \in TaskIds : IndexSettled(t, FALSE)
    \/ \E t \in TaskIds : DiscoverSettled(t)
    \/ \E t \in TaskIds : PostsSettled(t, FALSE)
    \/ \E t \in TaskIds : Resume(t)

Spec == Init /\ [][Next]_vars

\* PostManager.loadAllPosts called by itself, one call at a time, against
\* every index document and every settlement of the post fetches.
InitLoad ==
    /\ StoreInit
    /\ locationHash = <<>>
    /\ hashEvents = 0
    /\ probe = NoProbe

CallLoadAllPosts ==
    /\ \A t \in TaskIds : tasks[t].pc = "idle"
    /\ CallLoad("loadAllPosts", <<>>, FALSE)
    /\ called' = NoCall
    /\ UNCHANGED <<storeVars, mainContent, content, routerVars, searchVars,
                   events, probe>>

NextLoad ==
    \/ CallLoadAllPosts
    \/ \E t \in TaskIds : IndexSettled(t, TRUE)
    \/ \E t \in TaskIds : DiscoverSettled(t)
    \/ \E t \in TaskIds : PostsSettled(t, TRUE)
    \/ \E t \in TaskIds : Resume(t)

SpecLoad == InitLoad /\ [][NextLoad]_vars

(***************************************************************************)
(* Router.navigate and Router.handleRouteChange on given routes, params    *)
(* and fragments                                                           *)
(***************************************************************************)

\* Keys a params mapping passed to navigate carries together.
MaxParams == 2

ParamKeys == {kSlug, kQuery, kQ, kCategory, kTag}

mySlug == <<"m", "y", "-", "s">>

\* Slugs are URL-safe; the other values are free text.
ParamValues(key) ==
    IF key = kSlug THEN {sa, mySlug} ELSE {<<"j", "s">>, <<"a", " ", "b">>}

ParamMaps ==
    UNION {{p \in [K -> UNION {ParamValues(k) : k \in ParamKeys}] :
                \A k \in K : p[k] \in ParamValues(k)} :
           K \in {L \in SUBSET ParamKeys : Cardinality(L) <= MaxParams}}

\* The query strings of the fragments opened: lists of <<key, value>>.
QueryPairs ==
    {<<>>,
     <<<<kQ, <<"j", "s">>>>>>,
     <<<<kTag, <<"a", " ", "b">>>>>>,
     <<<<kQ, <<"j", "s">>>>, <<kTag, <<"a", " ", "b">>>>>>}

NoRes == [threw |-> FALSE, route |-> <<>>, params |-> NoParams]

RouteProbe(origin, route, params, slug, pairs) ==
    [stage |-> "given", origin |-> origin, route |-> route, params |-> params,
     slug |-> slug, pairs |-> pairs, hash |-> <<>>, state |-> <<>>, via |-> "none",
     res |-> NoRes, handler |-> Null]

\* key=value&key=value with the values encoded.
RECURSIVE QueryString(_)
QueryString(pairs) ==
    IF pairs = <<>> THEN <<>>
    ELSE Head(pairs)[1] \o <<"=">> \o EncodeURIComponent(Head(pairs)[2])
         \o (IF Len(pairs) > 1 THEN <<"&">> \o QueryString(Tail(pairs)) ELSE <<>>)

\* The fragment #<route>[/<slug>][?key=value&...] of the URL scheme.
SchemeFragment(route, slug, pairs) ==
    IF route = <<>> THEN <<>>
    ELSE <<"#">> \o route
         \o (IF slug # <<>> THEN <<"/">> \o slug ELSE <<>>)
         \o (IF pairs # <<>> THEN <<"?">> \o QueryString(pairs) ELSE <<>>)

InitRoute ==
    /\ StoreInit
    /\ locationHash = <<>>
    /\ hashEvents = 0
    /\ \/ \E route \in RouteNames, params \in ParamMaps :
              probe = RouteProbe("navigate", route, params, <<>>, <<>>)
       \/ \E route \in RouteNames, slug \in {<<>>, mySlug}, pairs \in QueryPairs :
              probe = RouteProbe("scheme", route, NoParams, slug, pairs)
       \/ probe = RouteProbe("scheme", <<>>, NoParams, <<>>, <<>>)
       \/ \E origin \in {"searchByTag", "searchByCategory"}, x \in ParamValues(kQuery) :
              probe = RouteProbe(origin, rSearch, SetParam(NoParams, kQuery, x),
                                 <<>>, <<>>)

\* router.navigate(route, params) assigns the fragment.
ProbeNavigate ==
    /\ probe.stage = "given"
    /\ probe.origin = "navigate"
    /\ probe' = [probe EXCEPT !.stage = "assigned",
                              !.hash = AssignHash(NavigateURL(probe.route, probe.params))]
    /\ UNCHANGED <<storeVars, netVars, domVars, routerVars, searchVars, tasks,
                   events, called>>

\* The page is opened at a fragment of the URL scheme.
ProbeOpen ==
    /\ probe.stage = "given"
    /\ probe.origin = "scheme"
    /\ probe' = [probe EXCEPT !.stage = "assigned",
                              !.hash = SchemeFragment(probe.route, probe.slug, probe.pairs)]
    /\ UNCHANGED <<storeVars, netVars, domVars, routerVars, searchVars, tasks,
                   events, called>>

\* searchByTag(x) and searchByCategory(x): the path handed to updateURL.
SearchURL(x) ==
    <<"#", "/">> \o rSearch \o <<"?">> \o kQuery \o <<"=">> \o EncodeURIComponent(x)

\* updateURL(path): history.pushState({ path }, '', origin + pathname + path)
\* makes path the fragment and the state of the new history entry.
ProbeUpdateURL ==
    /\ probe.stage = "given"
    /\ probe.origin \in {"searchByTag", "searchByCategory"}
    /\ LET path == SearchURL(probe.params[kQuery])
       IN  probe' = [probe EXCEPT !.stage = "pushed", !.hash = path, !.state = path]
    /\ UNCHANGED <<storeVars, netVars, domVars, routerVars, searchVars, tasks,
                   events, called>>

\* The pushed entry is come back to (popstate: handleRouteChange(e.state.path))
\* or the page is loaded at its URL (handleRouteChange()).
ProbeReturn ==
    /\ probe.stage = "pushed"
    /\ \E via \in {"popstate", "load"} :
        LET r == ResolveRoute(IF via = "popstate" THEN probe.state ELSE <<>>, probe.hash)
            h == RouteLookup(routes, r.route)
        IN  probe' = [probe EXCEPT !.stage = "handled",
                                   !.via = via,
                                   !.res = r,
                                   !.handler = IF r.threw THEN Null
                                               ELSE IF h # Null THEN h
                                               ELSE RouteLookup(routes, r404)]
    /\ UNCHANGED <<storeVars, netVars, domVars, routerVars, searchVars, tasks,
                   events, called>>

\* Router.handleRouteChange resolves the fragment and looks the handler up.
ProbeHandle ==
    /\ probe.stage = "assigned"
    /\ LET r == ResolveRoute(<<>>, probe.hash)
           h == RouteLookup(routes, r.route)
       IN  probe' = [probe EXCEPT !.stage = "handled",
                                  !.res = r,
                                  !.handler = IF r.threw THEN Null
                                              ELSE IF h # Null THEN h
                                              ELSE RouteLookup(routes, r404)]
    /\ UNCHANGED <<storeVars, netVars, domVars, routerVars, searchVars, tasks,
                   events, called>>

NextRoute == ProbeNavigate \/ ProbeOpen \/ ProbeHandle \/ ProbeUpdateURL \/ ProbeReturn

SpecRoute == InitRoute /\ [][NextRoute]_vars

(***************************************************************************)
(* PostManager.searchPosts on given collections and queries                *)
(***************************************************************************)

\* Longest query.
MaxQueryLen == 2

QueryChars == {"J", "s", "w", "d", "p"}

RECURSIVE StringsUpTo(_)
StringsUpTo(n) ==
    IF n = 0 THEN {<<>>}
    ELSE LET shorter == StringsUpTo(n - 1)
         IN  shorter \cup
             {Append(q, c) : q \in {r \in shorter : Len(r) = n - 1}, c \in QueryChars}

\* The collections loaded from the well-formed documents, in every order.
Collections ==
    {LoadedPosts(l, [i \in 1..Len(l) |-> Body(GoodDoc(l[i]))]) : l \in IndexLists(TRUE)}

InitSearch ==
    /\ StoreInit
    /\ locationHash = <<>>
    /\ hashEvents = 0
    /\ \E ps \in Collections, query \in StringsUpTo(MaxQueryLen) :
           probe = [stage |-> "given", posts |-> ps, query |-> query, result |-> <<>>]

\* postManager.searchPosts(query) on the collection.
ProbeSearch ==
    /\ probe.stage = "given"
    /\ probe' = [probe EXCEPT !.stage = "searched",
                              !.result = searchPosts(probe.posts, probe.query)]
    /\ UNCHANGED <<storeVars, netVars, domVars, routerVars, searchVars, tasks,
                   events, called>>

NextSearch == ProbeSearch

SpecSearch == InitSearch /\ [][NextSearch]_vars

(***************************************************************************)
(* PostManager.getLatestPosts on given collections and limits              *)
(***************************************************************************)

\* Largest collection of dated posts.
MaxDated == 5

\* Largest limit passed to getLatestPosts.
MaxLimit == 6

Days == {<<"1">>, <<"2">>, <<"3">>, <<"4">>, <<"5">>}

RECURSIVE DateLists(_)
DateLists(n) ==
    IF n = 0 THEN {<<>>}
    ELSE LET shorter == DateLists(n - 1)
         IN  shorter \cup
             {Append(l, d) : l \in {m \in shorter : Len(m) = n - 1}, d \in Days}

\* The collection whose i-th post, of slug i, carries the i-th date.
DatedPosts(dates) ==
    [i \in 1..Len(dates) |-> [slug |-> <<ToString(i)>>, date |-> dates[i]]]

InitLatest ==
    /\ StoreInit
    /\ locationHash = <<>>
    /\ hashEvents = 0
    /\ \E dates \in DateLists(MaxDated), limit \in 0..MaxLimit :
           probe = [stage |-> "given", posts |-> DatedPosts(dates), limit |-> limit,
                    result |-> <<>>]

\* postManager.getLatestPosts(limit) on the collection.
ProbeLatest ==
    /\ probe.stage = "given"
    /\ probe' = [probe EXCEPT !.stage = "latest",
                              !.posts = SortByDateDesc(probe.posts),
                              !.result = getLatestPosts(probe.posts, probe.limit)]
    /\ UNCHANGED <<storeVars, netVars, domVars, routerVars, searchVars, tasks,
                   events, called>>

NextLatest == ProbeLatest

SpecLatest == InitLatest /\ [][NextLatest]_vars

(***************************************************************************)
(* The operations of PostManager on a loaded collection, one after another *)
(***************************************************************************)

\* Operations called on the store after the load.
MaxOps == 2

StoreLimits == {0, 1, HomeLatest}

StoreQueries == {<<"J">>, <<"w">>}

StoreSlugs == Slugs \cup {<<"A">>, <<>>}

StoreCategories == {<<"W", "e", "b">>, <<"w", "e", "b">>, <<"d", "e", "v">>}

StoreTags == {<<"a", "b">>, <<"W", "e", "b">>, <<"w", "e", "b">>, <<"j", "s">>}

InitStore ==
    /\ StoreInit
    /\ locationHash = <<>>
    /\ hashEvents = 0
    /\ \E ps \in Collections :
           probe = [stage |-> "loaded", loaded |-> ps, posts |-> ps, op |-> "none",
                    arg |-> <<>>, result |-> <<>>, ops |-> 0]

\* The operation op(arg) leaves this.posts as after and returns result.
StoreOp(op, arg, after, result) ==
    /\ probe.stage = "loaded"
    /\ probe.ops < MaxOps
    /\ probe' = [probe EXCEPT !.posts = after, !.op = op, !.arg = arg,
                              !.result = result, !.ops = @ + 1]
    /\ UNCHANGED <<storeVars, netVars, domVars, routerVars, searchVars, tasks,
                   events, called>>

StoreGetLatestPosts ==
    \E limit \in StoreLimits :
        StoreOp("getLatestPosts", limit, SortByDateDesc(probe.posts),
                getLatestPosts(probe.posts, limit))

\* const posts = postManager.posts.sort(...) of Router.renderAllPosts.
StoreRenderAllPosts ==
    StoreOp("renderAllPosts", <<>>, SortByDateDesc(probe.posts),
            SortByDateDesc(probe.posts))

StoreSearchPosts ==
    \E query \in StoreQueries :
        StoreOp("searchPosts", query, probe.posts, searchPosts(probe.posts, query))

StoreGetPostBySlug ==
    \E slug \in StoreSlugs :
        StoreOp("getPostBySlug", slug, probe.posts, getPostBySlug(probe.posts, slug))

StoreGetPostsByCategory ==
    \E category \in StoreCategories :
        StoreOp("getPostsByCategory", category, probe.posts,
                getPostsByCategory(probe.posts, category))

StoreGetPostsByTag ==
    \E tag \in StoreTags :
        StoreOp("getPostsByTag", tag, probe.posts, getPostsByTag(probe.posts, tag))

NextStore ==
    \/ StoreGetLatestPosts
    \/ StoreRenderAllPosts
    \/ StoreSearchPosts
    \/ StoreGetPostBySlug
    \/ StoreGetPostsByCategory
    \/ StoreGetPostsByTag

SpecStore == InitStore /\ [][NextStore]_vars

(***************************************************************************)
(* replacePhotoPlaceholders on given contents and photos                   *)
(***************************************************************************)

\* ${index + 1} in a template literal: the decimal digits of a positive number.
RECURSIVE Decimal(_)
Decimal(n) == IF n < 10 THEN <<ToString(n)>> ELSE Decimal(n \div 10) \o <<ToString(n % 10)>>

PlaceholderOpen ==
    <<"{", "{", "p", "h", "o", "t", "o">>

PlaceholderClose == <<"}", "}">>

\* const placeholder: {{photo${index + 1}}}
Placeholder(n) == PlaceholderOpen \o Decimal(n) \o PlaceholderClose

ImgSrc ==
    <<"<", "i", "m", "g", " ", "s", "r", "c", "=", "\"">>

ImgAlt ==
    <<"\"", " ", "a", "l", "t", "=", "\"", "B", "l", "o", "g", " ", "i",
      "m", "a", "g", "e", " ">>

ImgClass ==
    <<"\"", " ", "c", "l", "a", "s", "s", "=", "\"", "w", "-", "f", "u",
      "l", "l", " ", "h", "-", "a", "u", "t", "o", " ", "r", "o", "u", "n",
      "d", "e", "d", "-", "l", "g", " ", "s", "h", "a", "d", "o", "w", "-",
      "m", "d", " ", "m", "y", "-", "4", "\"", " ", "l", "o", "a", "d",
      "i", "n", "g", "=", "\"", "l", "a", "z", "y", "\"", ">">>

\* const imgTag: <img src="${photo}" alt="Blog image ${index + 1}" ...>
ImgTag(photo, n) == ImgSrc \o photo \o ImgAlt \o Decimal(n) \o ImgClass

\* The least number of a set of positions, 0 for none.
Least(positions) ==
    IF positions = {} THEN 0 ELSE CHOOSE j \in positions : \A k \in positions : j <= k

\* The replacement text of String.prototype.replace for one match: $$ is a
\* dollar sign and $& the matched text; any other character stands for
\* itself (the patterns for the text before and after the match do not
\* occur in the photos drawn here).
RECURSIVE GetSubstitution(_, _, _, _)
GetSubstitution(template, matched, before, after) ==
    LET j == Least({k \in 1..(Len(template) - 1) : template[k] = "$"})
    IN  IF j = 0 THEN template
        ELSE LET rest == GetSubstitution(SubSeq(template, j + 2, Len(template)),
                                         matched, before, after)
             IN  SubSeq(template, 1, j - 1)
                 \o CASE template[j + 1] = "$" -> <<"$">> \o rest
                      [] template[j + 1] = "&" -> matched \o rest
                      [] OTHER -> <<"$">>
                                  \o GetSubstitution(SubSeq(template, j + 1, Len(template)),
                                                     matched, before, after)

\* Where pattern occurs in str at position i or later.
MatchesFrom(str, pattern, i) ==
    {j \in i..(Len(str) - Len(pattern) + 1) :
        SubSeq(str, j, j + Len(pattern) - 1) = pattern}

\* str.replace(new RegExp(pattern, 'g'), template) from position i on, for a
\* pattern that matches itself literally, as {{photoN}} does.
RECURSIVE ReplaceFrom(_, _, _, _)
ReplaceFrom(str, pattern, template, i) ==
    LET j == Least(MatchesFrom(str, pattern, i))
    IN  IF j = 0 THEN SubSeq(str, i, Len(str))
        ELSE SubSeq(str, i, j - 1)
             \o GetSubstitution(template, pattern, SubSeq(str, 1, j - 1),
                                SubSeq(str, j + Len(pattern), Len(str)))
             \o ReplaceFrom(str, pattern, template, j + Len(pattern))

\* photos.forEach((photo, index) => ...) up to the photo of number n.
RECURSIVE ReplacePhotosUpTo(_, _, _)
ReplacePhotosUpTo(contents, photos, n) ==
    IF n = 0 THEN contents
    ELSE ReplaceFrom(ReplacePhotosUpTo(contents, photos, n - 1), Placeholder(n),
                     ImgTag(photos[n], n), 1)

\* replacePhotoPlaceholders(contents, photos).
replacePhotoPlaceholders(contents, photos) == ReplacePhotosUpTo(contents, photos, Len(photos))

\* Longest photos list.
MaxPhotos == 2

\* Pieces a contents string is put together from.
MaxPieces == 3

Photos == {<<"a">>, <<"b">>, <<"$", "&">>}

ContentPieces ==
    {<<"x">>, <<"{">>, Placeholder(1), Placeholder(2), Placeholder(MaxPhotos + 1)}

RECURSIVE PhotoLists(_)
PhotoLists(n) ==
    IF n = 0 THEN {<<>>}
    ELSE LET shorter == PhotoLists(n - 1)
         IN  shorter \cup
             {Append(l, photo) : l \in {m \in shorter : Len(m) = n - 1}, photo \in Photos}

RECURSIVE Contents(_)
Contents(n) ==
    IF n = 0 THEN {<<>>}
    ELSE Contents(n - 1) \cup {c \o piece : c \in Contents(n - 1), piece \in ContentPieces}

InitPhotos ==
    /\ StoreInit
    /\ locationHash = <<>>
    /\ hashEvents = 0
    /\ \E c \in Contents(MaxPieces), photos \in PhotoLists(MaxPhotos) :
           probe = [stage |-> "given", contents |-> c, photos |-> photos,
                    result |-> <<>>, again |-> <<>>]

\* post.processedContent = replacePhotoPlaceholders(post.contents, post.photos || [])
ProbePhotos ==
    /\ probe.stage = "given"
    /\ probe' = [probe EXCEPT !.stage = "replaced",
                              !.result = replacePhotoPlaceholders(probe.contents, probe.photos)]
    /\ UNCHANGED <<storeVars, netVars, domVars, routerVars, searchVars, tasks,
                   events, called>>

\* A second call on the same input.
ProbePhotosAgain ==
    /\ probe.stage = "replaced"
    /\ probe' = [probe EXCEPT !.stage = "repeated",
                              !.again = replacePhotoPlaceholders(probe.contents, probe.photos)]
    /\ UNCHANGED <<storeVars, netVars, domVars, routerVars, searchVars, tasks,
                   events, called>>

NextPhotos == ProbePhotos \/ ProbePhotosAgain

SpecPhotos == InitPhotos /\ [][NextPhotos]_vars

(***************************************************************************)
(* The listeners of the search input: debounce, Enter and the button       *)
(***************************************************************************)

\* Keystrokes in the search input.
MaxKeys == 4

\* debounce((e) => this.handleSearch(e.target.value), 300): wait, in ms.
SearchDebounceWait == 300

\* The values the search input takes while the visitor types.
InputValues == {<<>>, <<"j">>, <<"j", "s">>}

NoTimeout == [set |-> FALSE, remaining |-> 0]

NoSearchCall == [via |-> "none", arg |-> <<>>]

\* A debounce that leaves a timer that is already set running.
executedFunctionNoClear(timeout, wait) ==
    IF timeout.set THEN timeout ELSE [set |-> TRUE, remaining |-> wait]

\* executedFunction of debounce: clearTimeout(timeout);
\* timeout = setTimeout(later, wait).
executedFunction(timeout, wait) == [set |-> TRUE, remaining |-> wait]

InitDebounce ==
    /\ StoreInit
    /\ locationHash = <<>>
    /\ hashEvents = 0
    /\ probe = [stage |-> "listening", event |-> "none", value |-> <<>>,
                timeout |-> NoTimeout, quiet |-> 0, lastKey |-> <<>>, keys |-> 0,
                fired |-> 0, call |-> NoSearchCall]

DebounceFrame ==
    UNCHANGED <<storeVars, netVars, domVars, routerVars, searchVars, tasks,
                events, called>>

\* The visitor types or deletes a character: the input event.
Keystroke ==
    /\ probe.stage = "listening"
    /\ probe.keys < MaxKeys
    /\ \E v \in InputValues \ {probe.value} :
           probe' = [probe EXCEPT !.event = "key", !.value = v,
                                  !.timeout = executedFunction(@, SearchDebounceWait),
                                  !.quiet = 0, !.lastKey = v, !.keys = @ + 1,
                                  !.fired = 0, !.call = NoSearchCall]
    /\ DebounceFrame

\* 100 ms pass; a timer that is due runs before more time passes.
Tick ==
    /\ probe.stage = "listening"
    /\ probe.keys > 0
    /\ ~(probe.timeout.set /\ probe.timeout.remaining = 0)
    /\ probe' = [probe EXCEPT
                    !.event = "tick",
                    !.timeout = IF @.set THEN [@ EXCEPT !.remaining = @ - 100] ELSE @,
                    !.quiet = IF @ > SearchDebounceWait THEN @ ELSE @ + 100,
                    !.call = NoSearchCall]
    /\ DebounceFrame

\* later of debounce: clearTimeout(timeout); func(...args), which reads
\* e.target.value when it runs.
TimeoutFires ==
    /\ probe.stage = "listening"
    /\ probe.timeout.set
    /\ probe.timeout.remaining = 0
    /\ probe' = [probe EXCEPT !.event = "timer", !.timeout = NoTimeout,
                              !.fired = @ + 1,
                              !.call = [via |-> "input", arg |-> probe.value]]
    /\ DebounceFrame

\* The keypress listener: Enter calls handleSearch(e.target.value).
PressEnter ==
    /\ probe.stage = "listening"
    /\ probe.keys > 0
    /\ probe.event # "enter"
    /\ probe' = [probe EXCEPT !.event = "enter",
                              !.call = [via |-> "keypress", arg |-> probe.value]]
    /\ DebounceFrame

\* The click listener of the search button.
ClickSearchButton ==
    /\ probe.stage = "listening"
    /\ probe.keys > 0
    /\ probe.event # "click"
    /\ probe' = [probe EXCEPT !.event = "click",
                              !.call = [via |-> "click", arg |-> probe.value]]
    /\ DebounceFrame

NextDebounce == Keystroke \/ Tick \/ TimeoutFires \/ PressEnter \/ ClickSearchButton

SpecDebounce == InitDebounce /\ [][NextDebounce]_vars

(***************************************************************************)
(* ThemeManager and the early theme initialisation of theme.js             *)
(***************************************************************************)

\* Clicks on the theme toggle in one visit after another.
MaxToggles == 2

\* Loads of the page.
MaxVisits == 3

tDark == <<"d", "a", "r", "k">>

tLight == <<"l", "i", "g", "h", "t">>

\* localStorage.getItem(key) of a key that is not stored: null.
NoItem == <<>>

\* JSON.stringify of a string without characters to escape.
JSONStringify(str) == <<"\"">> \o str \o <<"\"">>

\* JSON.parse of the text of a JSON string: [threw |-> TRUE] for a
\* SyntaxError, else the string.
JSONParse(text) ==
    IF Len(text) >= 2 /\ Head(text) = "\"" /\ text[Len(text)] = "\""
       /\ \A i \in 2..(Len(text) - 1) : text[i] # "\""
    THEN [threw |-> FALSE, val |-> SubSeq(text, 2, Len(text) - 1)]
    ELSE [threw |-> TRUE, val |-> <<>>]

\* A storage.get that returns the item as stored.
storageGetRaw(item) == item

\* storage.get(key): the parsed item, or null when there is none or it does
\* not parse.
storageGet(item) ==
    IF item = NoItem \/ JSONParse(item).threw THEN NoItem ELSE JSONParse(item).val

\* systemPrefersDark ? 'dark' : 'light'
SystemTheme(systemPrefersDark) == IF systemPrefersDark THEN tDark ELSE tLight

\* setTheme without the write to local storage.
setThemeDisplayOnly(theme) ==
    [probe EXCEPT !.dark = (theme = tDark),
                  !.dataTheme = IF theme = tDark THEN tDark ELSE tLight]

\* ThemeManager.setTheme(theme): the class of the html element and the item
\* saved.
setTheme(theme) ==
    [probe EXCEPT !.dark = (theme = tDark),
                  !.dataTheme = IF theme = tDark THEN tDark ELSE tLight,
                  !.item = JSONStringify(theme)]

InitTheme ==
    /\ StoreInit
    /\ locationHash = <<>>
    /\ hashEvents = 0
    /\ \E item \in {NoItem, JSONStringify(tDark), JSONStringify(tLight)},
          systemPrefersDark \in BOOLEAN :
           probe = [stage |-> "loading", event |-> "none", item |-> item,
                    loaded |-> item, systemPrefersDark |-> systemPrefersDark,
                    dark |-> FALSE, dataTheme |-> <<>>, initialTheme |-> <<>>,
                    defaultTheme |-> <<>>, toggles |-> 0, visits |-> 1]

ThemeFrame ==
    UNCHANGED <<storeVars, netVars, domVars, routerVars, searchVars, tasks,
                events, called>>

\* The function theme.js runs when the script loads.
EarlyThemeInit ==
    /\ probe.stage = "loading"
    /\ LET savedTheme == probe.item
       IN  IF savedTheme # NoItem /\ JSONParse(savedTheme).threw
           THEN \* the SyntaxError ends the script
                probe' = [probe EXCEPT !.stage = "failed", !.event = "early"]
           ELSE LET initialTheme == IF savedTheme # NoItem
                                    THEN JSONParse(savedTheme).val
                                    ELSE SystemTheme(probe.systemPrefersDark)
                IN  probe' = [probe EXCEPT !.stage = "early", !.event = "early",
                                           !.dark = (initialTheme = tDark),
                                           !.dataTheme = IF initialTheme = tDark
                                                         THEN tDark ELSE tLight,
                                           !.initialTheme = initialTheme]
    /\ ThemeFrame

\* DOMContentLoaded: new ThemeManager(), that is ThemeManager.init.
ThemeManagerInit ==
    /\ probe.stage = "early"
    /\ LET savedTheme   == storageGet(probe.item)
           defaultTheme == IF savedTheme # NoItem THEN savedTheme
                           ELSE SystemTheme(probe.systemPrefersDark)
       IN  probe' = [setTheme(defaultTheme) EXCEPT !.stage = "ready", !.event = "init",
                                                   !.defaultTheme = defaultTheme]
    /\ ThemeFrame

\* ThemeManager.toggleTheme, on a click on the theme toggle.
ToggleTheme ==
    /\ probe.stage = "ready"
    /\ probe.toggles < MaxToggles
    /\ LET currentTheme == IF probe.dark THEN tDark ELSE tLight
           newTheme     == IF currentTheme = tDark THEN tLight ELSE tDark
       IN  probe' = [setTheme(newTheme) EXCEPT !.event = "toggle", !.toggles = @ + 1]
    /\ ThemeFrame

\* The change listener of the colour-scheme media query.
SystemThemeChange ==
    /\ probe.stage = "ready"
    /\ LET matches        == ~probe.systemPrefersDark
           userPreference == probe.item
       IN  probe' = [(IF userPreference = NoItem
                      THEN setTheme(SystemTheme(matches)) ELSE probe)
                        EXCEPT !.event = "system", !.systemPrefersDark = matches]
    /\ ThemeFrame

\* A call of themeManager.setTheme with one of the two themes.
SetThemeCall ==
    /\ probe.stage = "ready"
    /\ \E theme \in {tDark, tLight} :
           probe' = [setTheme(theme) EXCEPT !.event = "setTheme"]
    /\ ThemeFrame

\* BlogApp.reset: localStorage.clear() and setTheme('light'), which writes
\* the only item again; then clearSearch() and router.navigate('home').
AppReset ==
    /\ probe.stage = "ready"
    /\ probe' = [setTheme(tLight) EXCEPT !.event = "reset"]
    /\ currentQuery' = <<>>
    /\ searchResults' = <<>>
    /\ Navigate(rHome, NoParams)
    /\ UNCHANGED <<storeVars, netVars, domVars, tasks, events, called>>

\* The visitor clears the stored data of the site.
ClearStorage ==
    /\ probe.stage = "ready"
    /\ probe.item # NoItem
    /\ probe' = [probe EXCEPT !.event = "clear", !.item = NoItem]
    /\ ThemeFrame

\* The visitor loads the page again: a new document, the same storage.
Reload ==
    /\ probe.stage = "ready"
    /\ probe.visits < MaxVisits
    /\ probe' = [probe EXCEPT !.stage = "loading", !.event = "none", !.dark = FALSE,
                              !.dataTheme = <<>>,
                              !.loaded = probe.item, !.initialTheme = <<>>,
                              !.defaultTheme = <<>>, !.toggles = 0, !.visits = @ + 1]
    /\ ThemeFrame

NextTheme ==
    \/ EarlyThemeInit
    \/ ThemeManagerInit
    \/ ToggleTheme
    \/ SystemThemeChange
    \/ SetThemeCall
    \/ AppReset
    \/ ClearStorage
    \/ Reload

SpecTheme == InitTheme /\ [][NextTheme]_vars

(***************************************************************************)
(* PostManager.loadPost on documents with every kind of tags value          *)
(***************************************************************************)

MaxTagsLen == 4

TagsChars == {"a", " ", ","}

RECURSIVE TagsStrings(_)
TagsStrings(n) ==
    IF n = 0 THEN {<<>>}
    ELSE LET shorter == TagsStrings(n - 1)
         IN  shorter \cup
             {Append(q, c) : q \in {r \in shorter : Len(r) = n - 1}, c \in TagsChars}

\* The tags values of a post document: strings, arrays (elements taken as
\* they are), values of another type, and no tags field at all.
TagsValues ==
    {TagString(str) : str \in TagsStrings(MaxTagsLen)}
    \cup {TagList(arr) : arr \in {<<>>, <<<<"a">>>>, <<<<" ", "a">>, <<>>, <<"a">>>>,
                                  <<<<"a", ",", "b">>>>}}
    \cup {TagOther(type) : type \in {"number", "boolean", "null", "object"}}

\* The well-formed document of c carrying the tags value, or none.
DocWithTags(hasTags, value) ==
    IF hasTags THEN [GoodDoc(sc) EXCEPT !["tags"] = value]
    ELSE Without(GoodDoc(sc), "tags")

InitTags ==
    /\ StoreInit
    /\ locationHash = <<>>
    /\ hashEvents = 0
    /\ \E value \in TagsValues, hasTags \in BOOLEAN :
           /\ hasTags \/ value = TagOther("null")
           /\ probe = [stage |-> "document", doc |-> DocWithTags(hasTags, value),
                       post |-> NoDoc]

\* loadPost(c) when the fetch answers with the document.
ProbeLoadPost ==
    /\ probe.stage = "document"
    /\ probe' = [probe EXCEPT !.stage = "loaded",
                              !.post = loadPost(sc, Body(probe.doc))]
    /\ UNCHANGED <<storeVars, netVars, domVars, routerVars, searchVars, tasks,
                   events, called>>

NextTags == ProbeLoadPost

SpecTags == InitTags /\ [][NextTags]_vars

(***************************************************************************)
(* Properties                                                              *)
(***************************************************************************)

\* A post document that was fetched and parsed and carries every required
\* field with a non-empty value.
Survives(o) ==
    /\ o.kind = "doc"
    /\ \A f \in {"slug", "title", "author", "date", "contents"} :
           f \in DOMAIN o.doc /\ o.doc[f] # <<>>

\* The surviving documents of a load, in index order.
RECURSIVE Survivors(_)
Survivors(outs) ==
    IF outs = <<>> THEN <<>>
    ELSE (IF Survives(Head(outs)) THEN <<Head(outs).doc>> ELSE <<>>)
         \o Survivors(Tail(outs))

\* The collection holds exactly these documents, in this order.
HoldsDocs(ps, docs) ==
    /\ Len(ps) = Len(docs)
    /\ \A i \in 1..Len(docs) :
           \A f \in DOMAIN docs[i] : f \in DOMAIN ps[i] /\ ps[i][f] = docs[i][f]

Fetched(t) == tasks[t].pc = "resume" /\ tasks[t].index = "ok"

\* C1: when loadAllPosts resolves after fetching an index list, the
\* collection is exactly the listed posts whose fetch succeeded and whose
\* required fields are all present and non-empty, in index order, and the
\* call did not reject because of the others.
C1_PartialFailureIsolation ==
    \A t \in TaskIds :
        Fetched(t) =>
            /\ tasks[t].res = "ok"
            /\ HoldsDocs(posts, Survivors(tasks[t].outs))

\* The index lists a, b, c; the fetch of b is answered 404; a and c load.
C1_Witness ==
    \E t \in TaskIds :
        /\ Fetched(t)
        /\ tasks[t].slugs = <<sa, sb, sc>>
        /\ tasks[t].outs[2].kind = "notok"
        /\ SlugsOf(posts) = <<sa, sc>>

\* The step in which the index fetch of call t settles with one of kinds.
IndexFails(t, kinds) ==
    /\ tasks[t].pc = "awaitIndex"
    /\ tasks'[t].index \in kinds

RejectsUnloaded(t) ==
    /\ tasks'[t].pc = "resume"
    /\ tasks'[t].res = "rejected"
    /\ UNCHANGED <<posts, categories, tags, postsLoaded, postFetches>>

\* C2 as stated: whenever the index cannot be fetched (network error or
\* unsuccessful response) or parsed, loadAllPosts rejects and no post
\* document is fetched or loaded.
C2_EveryIndexFailureFatal ==
    [][\A t \in TaskIds :
           IndexFails(t, {"neterr", "notok", "badjson"}) => RejectsUnloaded(t)]_vars

\* C2 as amended: whenever the fetch of the index throws (network error) or
\* its body cannot be parsed, loadAllPosts rejects and no post document is
\* fetched or loaded; an unsuccessful response makes it fall back to
\* discoverPosts instead.
C2_IndexThrowFatal ==
    [][\A t \in TaskIds :
           /\ IndexFails(t, {"neterr", "badjson"}) => RejectsUnloaded(t)
           /\ IndexFails(t, {"notok"}) => tasks'[t].pc = "awaitDiscover"]_vars

\* A call rejected because the index body did not parse.
C2_Witness ==
    \E t \in TaskIds :
        /\ tasks[t].pc = "resume"
        /\ tasks[t].res = "rejected"
        /\ tasks[t].index = "badjson"
        /\ ~postsLoaded

\* C3: once a load has succeeded, a later call of loadAllPosts returns the
\* cached collection, issues no fetch and leaves the collection and the
\* category and tag sets unchanged.
C3_LoadedIsIdempotent ==
    [][\A t \in TaskIds :
           (postsLoaded /\ tasks[t].pc = "idle" /\ tasks'[t].pc # "idle") =>
               /\ tasks'[t].pc = "resume"
               /\ tasks'[t].res = "ok"
               /\ tasks'[t].ret = posts
               /\ UNCHANGED <<posts, categories, tags, indexFetches, postFetches>>]_vars

\* A call answered from a loaded, non-empty collection.
C3_Witness ==
    \E t \in TaskIds :
        /\ tasks[t].pc = "resume"
        /\ tasks[t].index = "none"
        /\ postsLoaded
        /\ tasks[t].ret = posts
        /\ Len(posts) = 2
        /\ indexFetches = 1

\* C4: in one page session the index document and each post document are
\* fetched at most once.
C4_FetchedOnce ==
    /\ indexFetches <= 1
    /\ \A s \in Slugs : postFetches[s] <= 1

\* C5: handling the fragment that navigate(route, params) assigns resolves
\* to the same route and the same params, and the handler of that route is
\* the one invoked.
C5_FragmentRoundTrip ==
    (probe.stage = "handled" /\ probe.origin = "navigate") =>
        /\ ~probe.res.threw
        /\ probe.res.route = probe.route
        /\ probe.res.params = probe.params
        /\ probe.handler = defineRoutes[probe.route]

\* C6: a fragment #<route>[/<slug>][?key=value&...] resolves to the first
\* path segment as route (home for the empty fragment), the second path
\* segment as slug, and every query pair decoded in the params.
C6_FragmentParsing ==
    (probe.stage = "handled" /\ probe.origin = "scheme") =>
        /\ ~probe.res.threw
        /\ probe.res.route = (IF probe.route = <<>> THEN rHome ELSE probe.route)
        /\ probe.slug # <<>> =>
               /\ kSlug \in DOMAIN probe.res.params
               /\ probe.res.params[kSlug] = probe.slug
        /\ \A i \in 1..Len(probe.pairs) :
               /\ probe.pairs[i][1] \in DOMAIN probe.res.params
               /\ probe.res.params[probe.pairs[i][1]] = probe.pairs[i][2]

\* The step just taken was the hashchange listener running.
Dispatched == called.op \notin {"none", "handleSearch"} \/ called.threw = "URIError"

\* C7: when the route name resolved from the fragment is none of the
\* registered ones, the not-found view is rendered, no other handler is
\* invoked and the route table is unchanged.
C7_UnknownRouteNotFound ==
    LET r == ResolveRoute(<<>>, locationHash)
    IN  (Dispatched /\ ~r.threw /\ r.route \notin DOMAIN defineRoutes) =>
            /\ mainContent = View404
            /\ called.op = "render404"
            /\ routes = defineRoutes

RenderKinds == LoadingHandlers \cup {"renderPost"}

\* The step in which the render procedure of call t resumes in its catch
\* block because loadAllPosts rejected.
RenderCatches(t) ==
    /\ tasks[t].pc = "resume"
    /\ tasks[t].res = "rejected"
    /\ tasks[t].kind \in RenderKinds
    /\ tasks'[t].pc = "idle"

\* C8 as stated: whenever the render procedure of a navigation event throws,
\* synchronously or in its asynchronous body, the not-found view is rendered.
C8_RenderErrorNotFound ==
    [][(called'.threw = "TypeError" \/ \E t \in TaskIds : RenderCatches(t)) =>
           mainContent' = View404]_vars

\* C8 as amended: a render procedure that throws synchronously ends in the
\* not-found view; an error in the asynchronous body is caught by the
\* procedure itself, which calls showError and leaves #main-content alone.
C8_SyncThrowNotFound ==
    [][/\ called'.threw = "TypeError" => mainContent' = View404
       /\ \A t \in TaskIds :
              RenderCatches(t) => content' = ErrorView /\ UNCHANGED mainContent]_vars

\* The search route was dispatched over another view, its handler threw and
\* the not-found view is shown.
C8_Witness ==
    /\ called.op = "renderSearch"
    /\ called.threw = "TypeError"
    /\ currentRoute = rSearch
    /\ mainContent = View404

sessionVars == <<storeVars, netVars, domVars, routerVars, searchVars, tasks>>

\* C9 as stated: handleSearch of a query of fewer than 2 characters navigates
\* nowhere, computes nothing and leaves currentQuery, searchResults and the
\* fragment unchanged.
C9_ShortQueryNoOp ==
    [][(called'.op = "handleSearch" /\ Len(called'.arg) < 2) =>
           UNCHANGED sessionVars]_vars

\* C9 as amended: a query whose trimmed length is exactly 1 is a no-op; a
\* query that is empty after trimming computes nothing and leaves
\* currentQuery and searchResults unchanged, but navigates to home.
C9_OneCharacterNoOp ==
    [][called'.op = "handleSearch" =>
           /\ Len(Trim(called'.arg)) = 1 => UNCHANGED sessionVars
           /\ Len(Trim(called'.arg)) = 0 =>
                  /\ UNCHANGED <<storeVars, netVars, domVars, searchVars, tasks>>
                  /\ currentRoute' = rHome
                  /\ locationHash' = <<"#">> \o rHome]_vars

\* handleSearch was called with "j " on another route than home.
C9_Witness ==
    /\ called.op = "handleSearch"
    /\ called.arg = <<"j", " ">>
    /\ currentRoute = rPosts
    /\ currentQuery = <<>>

\* b occurs in a as a run of consecutive characters.
IsSubstring(b, a) ==
    \E i \in 1..(Len(a) + 1) : \E j \in (i - 1)..Len(a) : SubSeq(a, i, j) = b

\* The lower-cased texts of a post that a search looks into.
SearchedTexts(post) ==
    {ToLowerCase(post["title"]), ToLowerCase(extractTextFromHTML(post["contents"]))}
    \cup {ToLowerCase(post["tagArray"][i]) : i \in 1..Len(post["tagArray"])}
    \cup (IF "category" \in DOMAIN post THEN {ToLowerCase(post["category"])} ELSE {})

\* C10: searchPosts(query) returns exactly the posts of which some searched
\* text contains the lower-cased query, in collection order.
C10_SearchMatching ==
    probe.stage = "searched" =>
        LET ps   == probe.posts
            res  == probe.result
            hits == {i \in 1..Len(ps) :
                        \E text \in SearchedTexts(ps[i]) :
                            IsSubstring(ToLowerCase(probe.query), text)}
        IN  /\ Len(res) = Cardinality(hits)
            /\ \A i \in hits : \E j \in 1..Len(res) : res[j] = ps[i]
            /\ \A j, k \in 1..Len(res) :
                   j < k => \E i, l \in hits : i < l /\ ps[i] = res[j] /\ ps[l] = res[k]

\* A query in upper case found two of three posts, in collection order.
C10_Witness ==
    /\ probe.stage = "searched"
    /\ probe.query = <<"J">>
    /\ SlugsOf(probe.posts) = <<sc, sb, sa>>
    /\ SlugsOf(probe.result) = <<sb, sa>>

Range(seq) == {seq[i] : i \in 1..Len(seq)}

\* C11: getLatestPosts(n) returns min(n, size) posts of the collection, in
\* descending date order, none of them older than a post left out.
C11_LatestPosts ==
    probe.stage = "latest" =>
        LET ps  == probe.posts
            res == probe.result
            k   == IF probe.limit < Len(ps) THEN probe.limit ELSE Len(ps)
        IN  /\ Len(res) = k
            /\ Cardinality(Range(res)) = k
            /\ Range(res) \subseteq Range(ps)
            /\ \A j \in 1..(Len(res) - 1) :
                   DateValue(res[j]["date"]) >= DateValue(res[j + 1]["date"])
            /\ \A p \in Range(ps) \ Range(res), q \in Range(res) :
                   DateValue(p["date"]) <= DateValue(q["date"])

\* getLatestPosts(3) on five posts of distinct dates, listed in another order
\* than that of their dates, returned the three most recent, newest first.
C11_Witness ==
    /\ probe.stage = "latest"
    /\ probe.limit = 3
    /\ Len(probe.posts) = 5
    /\ [i \in 1..3 |-> probe.result[i]["slug"]] = <<<<"4">>, <<"2">>, <<"5">>>>
    /\ [i \in 1..3 |-> probe.result[i]["date"]] = <<<<"5">>, <<"4">>, <<"3">>>>

\* C12: whatever store operations came before, getPostsByCategory(c) returns
\* exactly the posts whose category is c and getPostsByTag(t) exactly the
\* posts whose tag list contains t, in the index order of the loaded
\* collection.
C12_FiltersKeepIndexOrder ==
    /\ probe.op = "getPostsByCategory" =>
           probe.result =
               SelectSeq(probe.loaded,
                         LAMBDA post : "category" \in DOMAIN post
                                       /\ post["category"] = probe.arg)
    /\ probe.op = "getPostsByTag" =>
           probe.result =
               SelectSeq(probe.loaded, LAMBDA post : probe.arg \in Range(post["tagArray"]))

\* C13: once the collection is loaded, a caller that resumes after its await
\* of loadAllPosts (a render procedure, handleSearch) leaves the membership
\* and the order of the collection as they are.
C13_NeverMutatedAfterLoad ==
    [][\A t \in TaskIds :
           (postsLoaded /\ tasks[t].pc = "resume" /\ tasks'[t].pc = "idle") =>
               posts' = posts]_vars

\* C14: getPostBySlug(slug) returns a post of the collection whose slug is
\* exactly the argument when there is one, and the absence of a value
\* otherwise.
C14_ExactSlugLookup ==
    probe.op = "getPostBySlug" =>
        IF \E post \in Range(probe.posts) : post["slug"] = probe.arg
        THEN probe.result \in Range(probe.posts) /\ probe.result["slug"] = probe.arg
        ELSE probe.result = NoDoc

\* After another store operation, the lookup of "A" on a collection holding
\* the slug "a" returned no value.
C14_Witness ==
    /\ probe.stage = "loaded"
    /\ probe.op = "getPostBySlug"
    /\ probe.ops = 2
    /\ probe.arg = <<"A">>
    /\ sa \in Range(SlugsOf(probe.posts))
    /\ probe.result = NoDoc

\* The step in which Router.renderPost returns at once for want of a slug.
RenderPostWithoutSlug ==
    called'.op = "renderPost" /\ ~Truthy(currentParams', kSlug)

\* The step in which Router.renderPost of call t finishes after the load.
RenderPostLoaded(t) ==
    /\ tasks[t].kind = "renderPost"
    /\ tasks[t].pc = "resume"
    /\ tasks[t].res = "ok"
    /\ tasks'[t].pc = "idle"

\* What renderPost of call t has to show: the post of that slug if the
\* collection holds one, the not-found view if not.
PostRouteShows(t) ==
    mainContent' = IF \E post \in Range(posts) : post["slug"] = tasks[t].arg
                   THEN View("post", <<tasks[t].arg>>)
                   ELSE View404

RECURSIVE Substituted(_, _, _)
Substituted(contents, photos, i) ==
    LET TokenAt(j) == {n \in 1..Len(photos) :
                          /\ j + Len(Placeholder(n)) - 1 <= Len(contents)
                          /\ SubSeq(contents, j, j + Len(Placeholder(n)) - 1) = Placeholder(n)}
        j == Least({k \in i..Len(contents) : TokenAt(k) # {}})
    IN  IF j = 0 THEN SubSeq(contents, i, Len(contents))
        ELSE LET n == CHOOSE m \in TokenAt(j) : TRUE
             IN  SubSeq(contents, i, j - 1)
                 \o ImgSrc \o photos[n] \o ImgAlt \o Decimal(n) \o ImgClass
                 \o Substituted(contents, photos, j + Len(Placeholder(n)))

\* C16: replacePhotoPlaceholders replaces every token {{photoN}} with
\* 1 <= N <= |photos| by an image element of source photos[N-1], leaves all
\* other text unchanged, and returns the same on a second call.
C16_PlaceholderSubstitution ==
    /\ probe.stage \in {"replaced", "repeated"} =>
           probe.result = Substituted(probe.contents, probe.photos, 1)
    /\ probe.stage = "repeated" => probe.again = probe.result

\* C17: the input path calls handleSearch only when 300 ms have passed
\* without a keystroke, once per burst of keystrokes and with the value of
\* the last keystroke; Enter and a click on the search button call
\* handleSearch at once with the value of the input.
C17_DebouncedSearch ==
    [][/\ probe'.call.via = "input" =>
              /\ probe.quiet >= 300
              /\ probe.fired = 0
              /\ probe'.call.arg = probe.lastKey
       /\ (probe.keys > 0 /\ probe.quiet > 300) => probe.fired = 1
       /\ probe'.event = "enter" => probe'.call = [via |-> "keypress", arg |-> probe.value]
       /\ probe'.event = "click" => probe'.call = [via |-> "click", arg |-> probe.value]]_vars

\* After three keystrokes the timer has called handleSearch, with the value
\* of the last of them.
C17_Witness ==
    /\ probe.stage = "listening"
    /\ probe.event = "timer"
    /\ probe.keys = 3
    /\ probe.fired = 1
    /\ probe.call = [via |-> "input", arg |-> <<"j", "s">>]

\* C18: when ThemeManager has initialised, the theme applied is the saved
\* one if the storage held an entry when the page loaded, and otherwise dark
\* exactly when the system prefers dark; the early initialisation chose the
\* same theme.
C18_ThemeAtStartup ==
    (probe.stage = "ready" /\ probe.event = "init") =>
        /\ probe.dark = IF probe.loaded = JSONStringify(tDark) THEN TRUE
                        ELSE IF probe.loaded = JSONStringify(tLight) THEN FALSE
                        ELSE probe.systemPrefersDark
        /\ probe.initialTheme = probe.defaultTheme

\* On a later visit, with the system preferring light, ThemeManager has
\* initialised to the dark theme saved by a toggle of the visit before.
C18_Witness ==
    /\ probe.stage = "ready"
    /\ probe.event = "init"
    /\ probe.visits = 2
    /\ ~probe.systemPrefersDark
    /\ probe.loaded = JSONStringify(tDark)
    /\ probe.dark

\* The route whose handler a render procedure is.
RouteOfHandler(h) ==
    CASE h = "renderHome" -> rHome
      [] h = "renderAllPosts" -> rPosts
      [] h = "renderPost" -> rPost
      [] h = "renderCategories" -> rCategories
      [] OTHER -> rTags

\* C19: a render procedure that resumes after its await and changes what a
\* content region shows was invoked for the route that is still the current
\* one.
C19_NoStaleWrites ==
    [][\A t \in TaskIds :
           (/\ tasks[t].kind \in RenderKinds
            /\ tasks[t].pc = "resume"
            /\ tasks'[t].pc = "idle"
            /\ <<mainContent, content>>' # <<mainContent, content>>) =>
               currentRoute = RouteOfHandler(tasks[t].kind)]_vars

\* C20: when the hashchange listener has handled a navigation event whose
\* fragment resolves, currentRoute and currentParams are the route and the
\* params resolved from the fragment, whether the route is registered or not.
C20_CurrentRouteOverwritten ==
    LET r == ResolveRoute(<<>>, locationHash)
    IN  (Dispatched /\ ~r.threw) =>
            /\ currentRoute = r.route
            /\ currentParams = r.params

\* SearchManager.renderSearchResults(query): the results view in #content,
\* headed by the query and listing SearchManager.searchResults.
SearchResultsView(query, results) == View("searchResults", <<query, SlugsOf(results)>>)

\* C21: when the navigation event queued by a completed handleSearch(q), q of
\* at least two characters after trimming, has been handled, the current route
\* is search and #content shows the results view for q listing searchPosts(q).
C21_SearchReachesResults ==
    [][(/\ hashEvents' < hashEvents
        /\ currentRoute = rSearch
        /\ Truthy(currentParams, kQuery)) =>
           /\ currentRoute' = rSearch
           /\ content' = SearchResultsView(currentParams[kQuery],
                                           searchPosts(posts', currentParams[kQuery]))]_vars

\* The step in which call t, a render procedure, runs from its resumption
\* after await postManager.loadAllPosts() to its end.
RenderCompletes(t) ==
    /\ tasks[t].pc = "resume"
    /\ tasks[t].kind \in RenderKinds
    /\ tasks'[t].pc = "idle"

\* C22 as stated: every call of the home, posts, post, categories or tags
\* procedure shows the loading indicator when it starts; every completion
\* leaves it hidden, and a rejected load ends in the inline error message
\* with nothing thrown.
C22_EveryRenderShowsLoading ==
    [][/\ called'.op \in RenderKinds => spinner' = TRUE
       /\ \A t \in TaskIds :
              RenderCompletes(t) =>
                  /\ spinner' = FALSE
                  /\ called'.threw = "no"
                  /\ tasks[t].res = "rejected" => content' = View("error", <<>>)]_vars

\* C22 as amended: a render procedure that reaches its await of loadAllPosts
\* (home, posts, categories, tags, and post when it is given a slug) has shown
\* the loading indicator; when it completes the indicator is hidden, nothing
\* is thrown, and a rejected load has put the inline error message in #content.
C22_LoadingRenderShowsLoading ==
    [][\A t \in TaskIds :
          /\ (tasks[t].pc = "idle" /\ tasks'[t].kind \in RenderKinds) => spinner' = TRUE
          /\ RenderCompletes(t) =>
                  /\ spinner' = FALSE
                  /\ called'.threw = "no"
                  /\ tasks[t].res = "rejected" => content' = View("error", <<>>)]_vars

\* The home procedure of the initial load ended in its catch block: the error
\* message is shown, the indicator is hidden and no call is in flight.
C22_Witness ==
    /\ content = View("error", <<>>)
    /\ spinner = FALSE
    /\ events = 0
    /\ called = NoCall
    /\ currentRoute = rHome
    /\ ~postsLoaded
    /\ \A t \in TaskIds : tasks[t].pc = "idle"

\* The labels of seq come in strictly ascending order: sorted, none twice.
Ascending(seq) == \A i \in 1..Len(seq) - 1 : StringLess(seq[i], seq[i + 1])

\* C23: once loadAllPosts has succeeded, the category set is exactly the
\* non-empty category labels of the posts in the collection and the tag set
\* exactly the tags of their tag lists; getAllCategories and getAllTags
\* return these labels in ascending order, each once.
C23_DerivedLabelSets ==
    postsLoaded =>
        /\ \A c \in categories :
               \E i \in 1..Len(posts) :
                   "category" \in DOMAIN posts[i] /\ posts[i]["category"] = c /\ c # <<>>
        /\ \A i \in 1..Len(posts) :
               ("category" \in DOMAIN posts[i] /\ posts[i]["category"] # <<>>) =>
                   posts[i]["category"] \in categories
        /\ \A g \in tags :
               \E i \in 1..Len(posts) : g \in Range(posts[i]["tagArray"])
        /\ \A i \in 1..Len(posts) : Range(posts[i]["tagArray"]) \subseteq tags
        /\ Range(getAllCategories(categories)) = categories
        /\ Ascending(getAllCategories(categories))
        /\ Range(getAllTags(tags)) = tags
        /\ Ascending(getAllTags(tags))

\* The index listed a, b and c and c was dropped: the labels are those of a
\* and b only, and the four tags come back in code-unit order.
C23_Witness ==
    /\ postsLoaded
    /\ SlugsOf(posts) = <<sa, sb>>
    /\ categories = {<<"W", "e", "b">>}
    /\ getAllTags(tags) = <<<<"W", "e", "b">>, <<"a", "b">>, <<"j", "s">>, <<"w", "e", "b">>>>

\* The positions of the commas of str, and the k-th of them (0 before the
\* first part, Len(str) + 1 after the last).
CommasOf(str) == {i \in 1..Len(str) : str[i] = ","}

Boundary(str, k) ==
    IF k = 0 THEN 0
    ELSE IF k > Cardinality(CommasOf(str)) THEN Len(str) + 1
    ELSE CHOOSE i \in CommasOf(str) :
             Cardinality({j \in CommasOf(str) : j < i}) = k - 1

\* The k-th comma-separated part of str without the blanks around it.
StrippedPart(str, k) ==
    LET from == Boundary(str, k - 1) + 1
        to   == Boundary(str, k) - 1
        inks == {i \in from..to : str[i] # " "}
    IN  IF inks = {} THEN <<>>
        ELSE SubSeq(str, CHOOSE i \in inks : \A j \in inks : i <= j,
                         CHOOSE i \in inks : \A j \in inks : i >= j)

\* C24: the tag list of a loaded post is, for a tags string, its
\* comma-separated parts, trimmed, in order, without the empty ones; for a
\* tags array, the array as it is; for no tags or tags of another type, empty.
C24_TagNormalisation ==
    probe.stage = "loaded" =>
        LET doc  == probe.doc
            list == probe.post["tagArray"]
        IN  IF "tags" \notin DOMAIN doc THEN list = <<>>
            ELSE IF doc["tags"].type = "array" THEN list = doc["tags"].val
            ELSE IF doc["tags"].type # "string" THEN list = <<>>
            ELSE LET str   == doc["tags"].val[1]
                     parts == [k \in 1..Cardinality(CommasOf(str)) + 1 |->
                                  StrippedPart(str, k)]
                 IN  list = SelectSeq(parts, LAMBDA part : part # <<>>)

\* The tags string " a,," was loaded as the one-element list a.
C24_Witness ==
    /\ probe.stage = "loaded"
    /\ "tags" \in DOMAIN probe.doc
    /\ probe.doc["tags"] = TagString(<<" ", "a", ",", ",">>)
    /\ probe.post["tagArray"] = <<<<"a">>>>

\* C25: when the system colour-scheme preference has just changed for a
\* visitor who arrived with no stored theme and has not toggled, the theme
\* applied is the one the system now prefers.
C25_FollowsSystemUntilChosen ==
    (/\ probe.stage = "ready"
     /\ probe.event = "system"
     /\ probe.visits = 1
     /\ probe.loaded = NoItem
     /\ probe.toggles = 0) =>
        probe.dark = probe.systemPrefersDark

\* The step in which call t of loadAllPosts rejects.
LoadRejects(t) ==
    /\ tasks[t].pc \notin {"idle", "resume"}
    /\ tasks'[t].pc = "resume"
    /\ tasks'[t].res = "rejected"

\* C26: when a call of loadAllPosts rejects, the loaded flag is false, the
\* collection and the category and tag sets are untouched, and the loading
\* indicator is hidden; a call made while the flag is false fetches the index.
C26_FailedLoadRetryable ==
    [][\A t \in TaskIds :
          /\ LoadRejects(t) =>
                 /\ ~postsLoaded'
                 /\ spinner' = FALSE
                 /\ UNCHANGED <<posts, categories, tags>>
          /\ (~postsLoaded /\ tasks[t].pc = "idle" /\ tasks'[t].pc # "idle") =>
                 /\ tasks'[t].pc = "awaitIndex"
                 /\ indexFetches' = indexFetches + 1]_vars

\* The theme recorded in local storage is the one displayed: the dark class
\* and the data-theme attribute of the document root.
StoredIsDisplayed(p) ==
    /\ p.item = JSONStringify(IF p.dark THEN tDark ELSE tLight)
    /\ p.dataTheme = (IF p.dark THEN tDark ELSE tLight)

\* C27: once ThemeManager has initialised, after every setTheme, toggleTheme
\* and BlogApp.reset (the storage not having been cleared from outside since)
\* the stored theme is the displayed one, and a toggle switches to the other
\* theme, so that two toggles restore both.
C27_StoredThemeIsDisplayed ==
    [][/\ (probe'.stage = "ready" /\ probe'.event # "clear") => StoredIsDisplayed(probe')
       /\ (probe.stage = "ready" /\ probe'.stage = "ready" /\ probe'.event = "toggle"
             /\ probe'.toggles > probe.toggles) =>
              probe'.dark = ~probe.dark]_vars

\* The second toggle of a visit has brought back the dark theme the visit
\* started with, displayed and stored.
C27_Witness ==
    /\ probe.stage = "ready"
    /\ probe.event = "toggle"
    /\ probe.toggles = 2
    /\ probe.defaultTheme = tDark
    /\ probe.dark
    /\ probe.dataTheme = tDark
    /\ probe.item = JSONStringify(tDark)

\* C28: the URL pushed by searchByTag(x) or searchByCategory(x), resolved on
\* coming back to its history entry or on loading the page at it, dispatches
\* the search route with the query parameter x.
C28_SearchURLResolves ==
    (probe.stage = "handled" /\ probe.origin \in {"searchByTag", "searchByCategory"}) =>
        /\ ~probe.res.threw
        /\ probe.res.route = rSearch
        /\ probe.handler = defineRoutes[rSearch]
        /\ kQuery \in DOMAIN probe.res.params
        /\ probe.res.params[kQuery] = probe.params[kQuery]

\* C29: whenever no handleSearch is in flight, SearchManager.searchResults
\* holds the posts that the free-text search, the tag filter or the category
\* filter gives for SearchManager.currentQuery (none for the empty query).
C29_SearchStateConsistent ==
    (\A t \in TaskIds : tasks[t].kind # "handleSearch") =>
        IF currentQuery = <<>> THEN searchResults = <<>>
        ELSE \E computed \in {searchPosts(posts, currentQuery),
                              getPostsByTag(posts, currentQuery),
                              getPostsByCategory(posts, currentQuery)} :
                 Range(SlugsOf(searchResults)) = Range(SlugsOf(computed))

====
